---- MODULE Spec2Model ----
(***************************************************************************)
(* Agent Lighthouse backend: the trace/span store (RedisService), the      *)
(* span aggregation of models/trace.py, the AgentState / ExecutionControl  *)
(* classes of models/state.py, the HTTP handlers of routers/traces.py and  *)
(* routers/state.py, and the WebSocket ConnectionManager.                  *)
(*                                                                         *)
(* A request handler is a coroutine: it runs without interruption between  *)
(* two awaits of real I/O (a Redis command, a WebSocket send).  Every      *)
(* action below is one such I/O together with the synchronous code that    *)
(* follows it up to the next I/O.  Values read from Redis are JSON copies, *)
(* so a handler works on a private copy of the trace or state it read.     *)
(***************************************************************************)
EXTENDS Integers, Sequences, FiniteSets, TLC

\* ---------------------------------------------------------------- bounds
MaxTraces == 1
MaxSpans == 2
MaxReq == 2
MaxConns == 1
MaxBatch == 2
MaxSnapshots == 2
MaxPeers == 2
MaxListTraces == 3
MaxSubIds == 2

\* Python's None for an optional id or timestamp; ids are 1, 2, ...
None == 0
\* Python's None for an optional number of an update request.
NoInt == -1

TraceIds == 1..MaxTraces
SpanIds == 1..MaxSpans
Reqs == 1..MaxReq
Conns == 1..MaxConns
\* The WebSocket clients there are (Conns: those of the specifications that
\* have their clients connect) and the trace ids a client may name in a
\* subscribe message, which need not be ids of stored traces.
Peers == 1..MaxPeers
\* The trace ids there are (TraceIds: those of the specifications that are
\* about one trace); ids are handed out in the order of the start times.
ListIds == 1..MaxListTraces
SubIds == 1..MaxSubIds

\* chain stands for the kinds chain, retriever and internal, which take the
\* same branch everywhere in the code.
SpanKind == {"agent", "tool", "llm", "chain"}
SpanStatus == {"running", "success", "error", "cancelled"}

\* ------------------------------------------------------ models/trace.py
Span(sid, tid, kind, parent) ==
    [span_id |-> sid, parent_span_id |-> parent, trace_id |-> tid,
     kind |-> kind, status |-> "running", end_time |-> None,
     duration_ms |-> None, total_tokens |-> 0, cost_usd |-> 0]

NoSpan == Span(None, None, "chain", None)

\* Span.complete: end_time = utcnow(), status, duration from the two times.
Span_complete(span, status) ==
    [span EXCEPT !.end_time = 1, !.status = status, !.duration_ms = 1]

Trace(tid) ==
    [trace_id |-> tid, status |-> "running", end_time |-> None,
     spans |-> <<>>, root_span_id |-> None, total_tokens |-> 0,
     total_cost_usd |-> 0, agent_count |-> 0, tool_calls |-> 0,
     llm_calls |-> 0]

\* What get_trace returns for a key that is not stored.
NoTrace == Trace(None)

Trace_add_span_SkipsLlm(trace, span) ==
    [trace EXCEPT
        !.spans = Append(@, span),
        !.total_tokens = @ + span.total_tokens,
        !.total_cost_usd = @ + span.cost_usd,
        !.agent_count = IF span.kind = "agent" THEN @ + 1 ELSE @,
        !.tool_calls = IF span.kind \in {"tool", "llm"} THEN @ + 1 ELSE @,
        !.root_span_id =
            IF @ = None /\ span.parent_span_id = None THEN span.span_id ELSE @]

Trace_add_span(trace, span) ==
    [trace EXCEPT
        !.spans = Append(@, span),
        !.total_tokens = @ + span.total_tokens,
        !.total_cost_usd = @ + span.cost_usd,
        !.agent_count = IF span.kind = "agent" THEN @ + 1 ELSE @,
        !.tool_calls = IF span.kind = "tool" THEN @ + 1 ELSE @,
        !.llm_calls = IF span.kind = "llm" THEN @ + 1 ELSE @,
        !.root_span_id =
            IF @ = None /\ span.parent_span_id = None THEN span.span_id ELSE @]

Trace_complete(trace, status) ==
    [trace EXCEPT !.end_time = 1, !.status = status]

SpanChildren_Reversed(spans, span_id) ==
    LET kids == SelectSeq(spans, LAMBDA s : s.parent_span_id = span_id)
    IN [i \in 1..Len(kids) |-> kids[Len(kids) + 1 - i].span_id]

\* get_span_tree's children[span_id]: the ids of the spans that name span_id
\* as their parent, in the order of trace.spans.
SpanChildren(spans, span_id) ==
    LET kids == SelectSeq(spans, LAMBDA s : s.parent_span_id = span_id)
    IN [i \in 1..Len(kids) |-> kids[i].span_id]

\* spans_by_id[span_id]: the last span of the list with this id.
SpanById(spans, span_id) ==
    spans[CHOOSE i \in 1..Len(spans) :
            /\ spans[i].span_id = span_id
            /\ \A j \in (i + 1)..Len(spans) : spans[j].span_id # span_id]

\* The {} that get_span_tree returns without a root.
EmptyTree == [span |-> NoSpan, children |-> <<>>]

\* build_tree of get_span_tree.
RECURSIVE build_tree(_, _)
build_tree(spans, span_id) ==
    LET ch == SpanChildren(spans, span_id)
    IN [span |-> SpanById(spans, span_id),
        children |-> [i \in 1..Len(ch) |-> build_tree(spans, ch[i])]]

Trace_get_span_tree(trace) ==
    IF trace.root_span_id # None
    THEN build_tree(trace.spans, trace.root_span_id)
    ELSE EmptyTree

\* Index of the first span of the list with this id, 0 when there is none.
FindSpan(spans, sid) ==
    IF \E i \in 1..Len(spans) : spans[i].span_id = sid
    THEN CHOOSE i \in 1..Len(spans) :
            /\ spans[i].span_id = sid
            /\ \A j \in 1..(i - 1) : spans[j].span_id # sid
    ELSE 0


\* ------------------------------------------------------ models/state.py
\* A JSON value is a leaf or a dict; a dict is a set of <<key, value>> pairs
\* with distinct keys.  Both shapes carry the same fields so that any two
\* values can be compared.
Leaf(n) == [t |-> "leaf", v |-> n, d |-> {}]
Dict(pairs) == [t |-> "dict", v |-> 0, d |-> pairs]
EmptyDict == Dict({})
DictKeys(c) == {p[1] : p \in c.d}
DictGet(c, k) == (CHOOSE p \in c.d : p[1] = k)[2]
DictPut(c, k, val) == Dict({p \in c.d : p[1] # k} \cup {<<k, val>>})

ExecutionControl(tid) ==
    [trace_id |-> tid, status |-> "running", breakpoint_spans |-> <<>>,
     breakpoint_agents |-> <<>>, step_count |-> 0, current_step |-> 0,
     paused_at |-> None, paused_span_id |-> None, resume_requested |-> FALSE]

ExecutionControl_pause_KeepsResume(control, span_id) ==
    [control EXCEPT !.status = "paused", !.paused_at = 1,
                    !.paused_span_id = span_id]

ExecutionControl_pause(control, span_id) ==
    [control EXCEPT !.status = "paused", !.paused_at = 1,
                    !.paused_span_id = span_id, !.resume_requested = FALSE]

ExecutionControl_resume_ClearsSteps(control) ==
    [control EXCEPT !.status = "running", !.resume_requested = TRUE,
                    !.paused_at = None, !.paused_span_id = None,
                    !.step_count = 0]

ExecutionControl_resume(control) ==
    [control EXCEPT !.status = "running", !.resume_requested = TRUE,
                    !.paused_at = None, !.paused_span_id = None]

ExecutionControl_step_Stops(control, count) ==
    [control EXCEPT !.status = "stopped", !.step_count = count,
                    !.current_step = 0, !.resume_requested = TRUE]

ExecutionControl_step(control, count) ==
    [control EXCEPT !.status = "step", !.step_count = count,
                    !.current_step = 0, !.resume_requested = TRUE]

\* An AgentState object.  Its three containers are Python dicts, that is
\* references: ref = 0 is a dict owned by the live state (val), ref = i > 0
\* is the very dict object held by snapshots[i].state_data, which
\* restore_snapshot assigns without copying.  Nothing else shares a dict:
\* take_snapshot deep-copies, the handlers assign request bodies, and
\* model_validate_json builds fresh dicts (ref = 0 everywhere).  messages is
\* written by no operation and stays the empty list.
Own(val) == [ref |-> 0, val |-> val]
Alias(i) == [ref |-> i, val |-> EmptyDict]

Containers == {"memory", "context", "variables"}

AgentState(tid, memory, context, variables) ==
    [trace_id |-> tid, memory |-> Own(memory), context |-> Own(context),
     variables |-> Own(variables), messages |-> <<>>, snapshots |-> <<>>,
     control |-> ExecutionControl(tid)]

\* What get_state returns for a key that is not stored.
NoState == AgentState(None, EmptyDict, EmptyDict, EmptyDict)

\* The dict a container field refers to.
Live(state, name) ==
    IF state[name].ref = 0 THEN state[name].val
    ELSE state.snapshots[state[name].ref].state_data[name]

LiveData(state) ==
    [memory |-> Live(state, "memory"), context |-> Live(state, "context"),
     variables |-> Live(state, "variables"), messages |-> state.messages]

\* container[...] = ... on the dict a container field refers to.
WriteThrough(state, name, val) ==
    IF state[name].ref = 0 THEN [state EXCEPT ![name] = Own(val)]
    ELSE [state EXCEPT !.snapshots[state[name].ref].state_data[name] = val]

\* model_dump_json followed by model_validate_json: the same data in fresh
\* objects, no dict shared with a snapshot any more.
JsonCopy(state) ==
    [state EXCEPT !.memory = Own(Live(state, "memory")),
                  !.context = Own(Live(state, "context")),
                  !.variables = Own(Live(state, "variables"))]

AgentState_take_snapshot(state, snapshot_id, span_id) ==
    [state EXCEPT !.snapshots =
        Append(@, [snapshot_id |-> snapshot_id, span_id |-> span_id,
                   state_data |-> LiveData(state)])]

\* Index of the first snapshot with this id, 0 when there is none.
FindSnapshot(snapshots, snapshot_id) ==
    IF \E i \in 1..Len(snapshots) : snapshots[i].snapshot_id = snapshot_id
    THEN CHOOSE i \in 1..Len(snapshots) :
            /\ snapshots[i].snapshot_id = snapshot_id
            /\ \A j \in 1..(i - 1) : snapshots[j].snapshot_id # snapshot_id
    ELSE 0

AgentState_restore_snapshot_Truncates(state, snapshot_id) ==
    LET i == FindSnapshot(state.snapshots, snapshot_id) IN
    IF i = 0 THEN [ok |-> FALSE, state |-> state]
    ELSE [ok |-> TRUE,
          state |-> [state EXCEPT !.memory = Alias(i), !.context = Alias(i),
                                  !.variables = Alias(i),
                                  !.messages = state.snapshots[i].state_data.messages,
                                  !.snapshots = SubSeq(@, 1, i)]]

AgentState_restore_snapshot_KeepsVariables(state, snapshot_id) ==
    LET i == FindSnapshot(state.snapshots, snapshot_id) IN
    IF i = 0 THEN [ok |-> FALSE, state |-> state]
    ELSE [ok |-> TRUE,
          state |-> [state EXCEPT !.memory = Alias(i), !.context = Alias(i),
                                  !.messages = state.snapshots[i].state_data.messages]]

AgentState_restore_snapshot(state, snapshot_id) ==
    LET i == FindSnapshot(state.snapshots, snapshot_id) IN
    IF i = 0 THEN [ok |-> FALSE, state |-> state]
    ELSE [ok |-> TRUE,
          state |-> [state EXCEPT !.memory = Alias(i), !.context = Alias(i),
                                  !.variables = Alias(i),
                                  !.messages = state.snapshots[i].state_data.messages]]

RECURSIVE SetPath_ReplacesChild(_, _, _)
SetPath_ReplacesChild(container, key_path, value) ==
    IF Len(key_path) = 1
    THEN [ok |-> TRUE, c |-> DictPut(container, key_path[1], value)]
    ELSE LET key == Head(key_path)
             sub == SetPath_ReplacesChild(EmptyDict, Tail(key_path), value)
         IN IF key \in DictKeys(container) /\ DictGet(container, key).t # "dict"
            THEN [ok |-> FALSE, c |-> container]
            ELSE [ok |-> sub.ok, c |-> DictPut(container, key, sub.c)]

\* The walk of modify_state over key_path inside one dict: a missing
\* non-terminal key is created as {} before the isinstance test, and what was
\* written stays written when a later test fails.
RECURSIVE SetPath(_, _, _)
SetPath(container, key_path, value) ==
    IF Len(key_path) = 1
    THEN [ok |-> TRUE, c |-> DictPut(container, key_path[1], value)]
    ELSE LET key == Head(key_path)
             child == IF key \in DictKeys(container)
                      THEN DictGet(container, key) ELSE EmptyDict
         IN IF child.t # "dict"
            THEN [ok |-> FALSE, c |-> container]
            ELSE LET sub == SetPath(child, Tail(key_path), value)
                 IN [ok |-> sub.ok, c |-> DictPut(container, key, sub.c)]

\* parts is path.split("."): a sequence of at least one segment.
AgentState_modify_state(state, parts, value) ==
    IF Len(parts) < 2 THEN [ok |-> FALSE, state |-> state]
    ELSE IF parts[1] \notin Containers THEN [ok |-> FALSE, state |-> state]
    ELSE LET w == SetPath(Live(state, parts[1]), Tail(parts), value)
         IN [ok |-> w.ok, state |-> WriteThrough(state, parts[1], w.c)]


\* ----------------------------------------------------------------- state
VARIABLES
    traces,               \* Redis keys lighthouse:trace:<id> (NoTrace: no key)
    traceList,            \* members of the sorted set lighthouse:trace:list
    states,               \* Redis keys lighthouse:state:<id> (NoState: no key)
    ttl,                  \* the trace and state keys that have a pending expiry
    spanChannel,          \* events published on lighthouse:events:spans
    req,                  \* the HTTP requests in flight, one per slot
    nextTraceId,          \* the next fresh trace id (uuid4)
    nextSpanId,           \* the next fresh span id (uuid4)
    nextSnapId,           \* the next fresh snapshot id (uuid4)
    active_connections,   \* ConnectionManager.active_connections
    trace_subscriptions,  \* ConnectionManager.trace_subscriptions
    ws,                   \* each WebSocket: new, open, closed (peer gone), gone
    inbox,                \* the broadcast messages each peer received
    everStored,           \* history: span ids that were ever in a stored trace
    deleted,              \* history: traces whose delete_trace completed
    updCalls,             \* history: update-span calls per span (0, 1, 2 = many)
    last,                 \* history: the latest HTTP response
    obj,                  \* one AgentState object used through its methods
    orig,                 \* history: what each snapshot of obj captured
    hist,                 \* history: the last method applied to obj
    tobj,                 \* one Trace object used through its methods
    tree,                 \* what get_span_tree of tobj returned last
    sdk,                  \* the SDK client's call in progress
    pausedHist,           \* history: each stored control was never paused,
                          \* is paused, was resumed, and a wait has seen it
    tracer                \* the SDK tracer's context variables, per task

vars == <<traces, traceList, states, ttl, spanChannel, req, nextTraceId, nextSpanId,
          nextSnapId, active_connections, trace_subscriptions, ws, inbox,
          everStored, deleted, updCalls, last, obj, orig, hist, tobj, tree,
          sdk, pausedHist, tracer>>

storeVars == <<traces, traceList, states, ttl, spanChannel>>
idVars == <<nextTraceId, nextSpanId, nextSnapId>>
connVars == <<active_connections, trace_subscriptions, ws, inbox>>
histVars == <<everStored, deleted, updCalls, last>>
objVars == <<obj, orig, hist, tobj, tree>>
sdkVars == <<sdk, pausedHist, tracer>>

\* sdk/agent_lighthouse/tracer.py.  The tasks of one program: task 1 is the
\* main task, the others are asyncio tasks it creates.
MaxTasks == 2
Tasks == 1..MaxTasks

\* The context variables as each task sees them: ctx is _active_trace_id,
\* ref names the list object that _active_span_stack holds (0: not set),
\* lists are those list objects.  frames are the trace and span context
\* managers each task has entered and not left, innermost last.  History:
\* spans are the create_span calls that succeeded, inherit the top of the
\* stack a task started with.
NoTracer ==
    [started |-> {1},
     ctx |-> [k \in Tasks |-> None],
     ref |-> [k \in Tasks |-> 0],
     lists |-> [k \in Tasks |-> <<>>],
     frames |-> [k \in Tasks |-> <<>>],
     inherit |-> [k \in Tasks |-> None],
     spans |-> {},
     next |-> 1]

\* A call of a LighthouseClient method (fn): where it is (idle, sent: its
\* request is out, sleep: between two polls, init and retry: the second and
\* third request of update_state, returned) and what it returned.
NoCall == [fn |-> "none", pc |-> "idle", tid |-> None, ret |-> "none"]

NoMsg == [type |-> "none", trace_id |-> None, span_id |-> None]

\* UpdateSpanRequest: the fields of it that reach the stored span's status,
\* times and aggregated numbers ("none" / NoInt: field not given).
NoPatch == [status |-> "none", total_tokens |-> NoInt, cost_usd |-> NoInt,
            duration_ms |-> NoInt]

\* A request slot: the handler it runs (op), the await it is suspended on
\* (pc), its arguments and local variables, and its HTTP status (result).
\* tev / sev count the events it published on the trace / state channel,
\* event is the type of the last one on the trace channel.
\* found: the service call located what it was to write (for delete_trace:
\* the trace had spans and a state); overlap (history):
\* another span write to the same trace was between its get and its save
\* while this one was.
\* The fields of a JSON response that a client acts on (get_control_status).
NoBody == [trace_id |-> None, status |-> "none", resume_requested |-> FALSE]

\* list_traces: its query (status "none": no filter), the ids of the index
\* it has still to resolve, the traces it has kept, and its answer.
NoList == [offset |-> 0, limit |-> 0, status |-> "none", scan |-> <<>>,
           got |-> <<>>, total |-> 0, page |-> <<>>]

IdleReq ==
    [op |-> "none", pc |-> "idle", tid |-> None, sid |-> None,
     span |-> NoSpan, trace |-> NoTrace, state |-> NoState, left |-> 0,
     targets |-> <<>>, dead |-> <<>>, msg |-> NoMsg, found |-> FALSE,
     overlap |-> FALSE, tev |-> 0, sev |-> 0, result |-> "none",
     body |-> NoBody, path |-> <<>>, list |-> NoList, event |-> "none"]

\* No handler has returned without its response being out.
Responded == \A r \in Reqs : req[r].pc # "done"

\* A new request takes the first slot that is not in use.  (Respond changes
\* nothing but the slot, so admitting requests only when the responses are
\* out loses no behaviour of the store.)
Free(r) ==
    /\ Responded
    /\ req[r].pc = "idle"
    /\ \A q \in 1..(r - 1) : req[q].pc # "idle"

NewReq(op, tid) == [IdleReq EXCEPT !.op = op, !.tid = tid]

\* The handler returns: its locals are dropped, its outcome is kept.
Finish(rq, result) ==
    [rq EXCEPT !.pc = "done", !.result = result, !.span = NoSpan,
               !.trace = NoTrace, !.state = NoState, !.left = 0,
               !.targets = <<>>, !.dead = <<>>, !.msg = NoMsg]

NoResponse == [op |-> "none", found |-> FALSE, overlap |-> FALSE,
               result |-> "none", body |-> NoBody]

NoHist == [op |-> "init", snap |-> 0, wasPure |-> FALSE, changed |-> FALSE,
           pure |-> <<>>]

SpanIdsOf(trace) == {trace.spans[i].span_id : i \in 1..Len(trace.spans)}

Init ==
    /\ traces = [t \in ListIds |-> NoTrace]
    /\ traceList = {}
    /\ states = [t \in ListIds |-> NoState]
    /\ ttl = [trace |-> {}, state |-> {}]
    /\ spanChannel = {}
    /\ req = [r \in Reqs |-> IdleReq]
    /\ nextTraceId = 1
    /\ nextSpanId = 1
    /\ nextSnapId = 1
    /\ active_connections = <<>>
    /\ trace_subscriptions = [t \in SubIds |-> [key |-> FALSE, list |-> <<>>]]
    /\ ws = [c \in Peers |-> "new"]
    /\ inbox = [c \in Peers |-> <<>>]
    /\ everStored = {}
    /\ deleted = [t \in ListIds |-> "no"]
    /\ updCalls = [s \in SpanIds |-> 0]
    /\ obj = AgentState(1, EmptyDict, EmptyDict, EmptyDict)
    /\ orig = <<>>
    /\ hist = NoHist
    /\ tobj = Trace(1)
    /\ tree = EmptyTree
    /\ last = NoResponse
    /\ sdk = NoCall
    /\ pausedHist = [t \in ListIds |-> "never"]
    /\ tracer = NoTracer

\* The handler's return value or HTTPException goes out as the response and
\* the slot is free again.
Respond(r) ==
    /\ req[r].pc = "done"
    /\ last' = [f \in DOMAIN NoResponse |-> req[r][f]]
    /\ req' = [req EXCEPT ![r] = IdleReq]
    /\ UNCHANGED <<sdkVars, storeVars, idVars, connVars, everStored, deleted, updCalls,
                   objVars>>

\* ------------------------------------ services/connection_manager.py
Remove(list, c) == SelectSeq(list, LAMBDA x : x # c)
InSeq(list, c) == \E i \in 1..Len(list) : list[i] = c

Disconnect_KeepsSubscriptions(cm, c) ==
    [active |-> Remove(cm.active, c), subs |-> cm.subs]

\* ConnectionManager.disconnect: out of the active list, out of every
\* subscriber list, and every key whose list is then empty is deleted.
Disconnect(cm, c) ==
    [active |-> Remove(cm.active, c),
     subs |-> [t \in DOMAIN cm.subs |->
                IF ~cm.subs[t].key THEN cm.subs[t]
                ELSE LET l == Remove(cm.subs[t].list, c)
                     IN IF l = <<>> THEN [key |-> FALSE, list |-> <<>>]
                        ELSE [key |-> TRUE, list |-> l]]]

RECURSIVE DisconnectAll(_, _)
DisconnectAll(cm, conns) ==
    IF conns = <<>> THEN cm
    ELSE DisconnectAll(Disconnect(cm, Head(conns)), Tail(conns))

Manager == [active |-> active_connections, subs |-> trace_subscriptions]

\* websocket_endpoint up to its receive loop: manager.connect.
WsConnect(c) ==
    /\ ws[c] = "new"
    /\ ws' = [ws EXCEPT ![c] = "open"]
    /\ active_connections' = Append(active_connections, c)
    /\ UNCHANGED <<sdkVars, trace_subscriptions, inbox, storeVars, idVars, req,
                   histVars, objVars>>

WsSubscribe_Appends(c, t) ==
    /\ ws[c] = "open"
    /\ trace_subscriptions' =
        [trace_subscriptions EXCEPT ![t] =
            [key |-> TRUE, list |-> Append(@.list, c)]]
    /\ UNCHANGED <<sdkVars, active_connections, ws, inbox, storeVars, idVars, req,
                   histVars, objVars>>

\* {"action": "subscribe", "trace_id": t}: subscribe_to_trace.
WsSubscribe(c, t) ==
    /\ ws[c] = "open"
    /\ trace_subscriptions' =
        [trace_subscriptions EXCEPT ![t] =
            [key |-> TRUE,
             list |-> IF InSeq(@.list, c) THEN @.list ELSE Append(@.list, c)]]
    /\ UNCHANGED <<sdkVars, active_connections, ws, inbox, storeVars, idVars, req,
                   histVars, objVars>>

\* {"action": "unsubscribe", "trace_id": t}: unsubscribe_from_trace, which
\* removes a member and leaves the key in place, and does nothing without
\* the key or for a connection that is not in the list.
WsUnsubscribe(c, t) ==
    /\ ws[c] = "open"
    /\ trace_subscriptions' =
        IF trace_subscriptions[t].key /\ InSeq(trace_subscriptions[t].list, c)
        THEN [trace_subscriptions EXCEPT ![t].list = Remove(@, c)]
        ELSE trace_subscriptions
    /\ UNCHANGED <<sdkVars, active_connections, ws, inbox, storeVars, idVars, req,
                   histVars, objVars>>

\* The peer goes away: from now on a send to this socket raises.
PeerClose(c) ==
    /\ ws[c] = "open"
    /\ ws' = [ws EXCEPT ![c] = "closed"]
    /\ UNCHANGED <<sdkVars, active_connections, trace_subscriptions, inbox, storeVars,
                   idVars, req, histVars, objVars>>

\* The peer stops answering without closing: a send to this socket raises
\* or times out, and receive_text stays pending.
PeerStale(c) ==
    /\ ws[c] = "open"
    /\ ws' = [ws EXCEPT ![c] = "stale"]
    /\ UNCHANGED <<sdkVars, active_connections, trace_subscriptions, inbox, storeVars,
                   idVars, req, histVars, objVars>>

\* One round of _heartbeat_loop: the ping goes out to a peer that is there;
\* when it raises or times out the socket is closed ("probed") and the loop
\* returns.  The ConnectionManager is not touched.
Heartbeat(c) ==
    /\ ws[c] \in {"open", "stale", "closed"}
    /\ ws' = [ws EXCEPT ![c] = IF @ = "open" THEN @ ELSE "probed"]
    /\ UNCHANGED <<sdkVars, active_connections, trace_subscriptions, inbox, storeVars,
                   idVars, req, histVars, objVars>>

WsExit_PeerCloseOnly(c) ==
    /\ ws[c] = "closed"
    /\ ws' = [ws EXCEPT ![c] = "gone"]
    /\ active_connections' = Disconnect(Manager, c).active
    /\ trace_subscriptions' = Disconnect(Manager, c).subs
    /\ UNCHANGED <<sdkVars, inbox, storeVars, idVars, req, histVars, objVars>>

\* receive_text raises WebSocketDisconnect once the socket is closed, by the
\* peer or by the heartbeat: the finally block disconnects.
WsExit(c) ==
    /\ ws[c] \in {"closed", "probed"}
    /\ ws' = [ws EXCEPT ![c] = "gone"]
    /\ active_connections' = Disconnect(Manager, c).active
    /\ trace_subscriptions' = Disconnect(Manager, c).subs
    /\ UNCHANGED <<sdkVars, inbox, storeVars, idVars, req, histVars, objVars>>

\* What a handler does once its broadcast is over: the batch handler builds
\* its next span (kind, parent: the next element of the request) and calls
\* add_span, every other handler returns.
AfterBroadcast(rq, kind, parent) ==
    IF rq.op = "batch_create_spans" /\ rq.left > 0
    THEN [rq EXCEPT !.span = Span(rq.span.span_id + 1, rq.tid, kind, parent),
                    !.left = @ - 1, !.pc = "as_get"]
    ELSE Finish(rq, "ok")

\* broadcast_to_trace up to its first send: nothing to do without the key,
\* otherwise a copy of the subscriber list to iterate over.
Broadcast(rq, msg, kind, parent) ==
    LET sub == trace_subscriptions[rq.tid] IN
    IF ~sub.key \/ sub.list = <<>> THEN AfterBroadcast(rq, kind, parent)
    ELSE [rq EXCEPT !.targets = sub.list, !.dead = <<>>, !.msg = msg,
                    !.pc = "send"]

\* ConnectionManager.broadcast up to its first send: a copy of the list of
\* active connections to iterate over.  No handler calls it; it is the
\* call of the method by itself.
AllMsg == [type |-> "message", trace_id |-> None, span_id |-> None]

BroadcastAll(r) ==
    /\ Free(r)
    /\ req' = [req EXCEPT ![r] =
            IF active_connections = <<>>
            THEN Finish(NewReq("broadcast", None), "ok")
            ELSE [NewReq("broadcast", None) EXCEPT
                    !.targets = active_connections, !.msg = AllMsg,
                    !.pc = "send"]]
    /\ UNCHANGED <<sdkVars, storeVars, idVars, connVars, histVars, objVars>>

Send_Raises(r, kind, parent) ==
    /\ req[r].pc = "send"
    /\ LET rq == req[r]
           c == Head(rq.targets)
           sent == ws[c] = "open"
           rest == Tail(rq.targets)
       IN /\ inbox' = IF sent THEN [inbox EXCEPT ![c] = Append(@, rq.msg)]
                      ELSE inbox
          /\ req' = [req EXCEPT ![r] =
                IF ~sent THEN Finish(rq, "500")
                ELSE IF rest = <<>>
                THEN AfterBroadcast([rq EXCEPT !.targets = <<>>], kind, parent)
                ELSE [rq EXCEPT !.targets = rest]]
    /\ UNCHANGED <<sdkVars, active_connections, trace_subscriptions, ws, storeVars,
                   idVars, histVars, objVars>>

\* One send_json of broadcast or broadcast_to_trace; after the last one the
\* connections whose send raised are disconnected.
Send(r, kind, parent) ==
    /\ req[r].pc = "send"
    /\ LET rq == req[r]
           c == Head(rq.targets)
           sent == ws[c] = "open"
           dead == IF sent THEN rq.dead ELSE Append(rq.dead, c)
           rest == Tail(rq.targets)
           cm == IF rest = <<>> THEN DisconnectAll(Manager, dead) ELSE Manager
       IN /\ inbox' = IF sent THEN [inbox EXCEPT ![c] = Append(@, rq.msg)]
                      ELSE inbox
          /\ active_connections' = cm.active
          /\ trace_subscriptions' = cm.subs
          /\ req' = [req EXCEPT ![r] =
                IF rest = <<>>
                THEN AfterBroadcast([rq EXCEPT !.targets = <<>>, !.dead = <<>>],
                                    kind, parent)
                ELSE [rq EXCEPT !.targets = rest, !.dead = dead]]
    /\ UNCHANGED <<sdkVars, ws, storeVars, idVars, histVars, objVars>>


\* ------------------------- services/redis_service.py, routers/traces.py
SpanMsg(type, span) ==
    [type |-> type, trace_id |-> span.trace_id, span_id |-> span.span_id]

\* The span writes of other requests that hold a copy of trace tid which
\* they have read and not yet saved.
Writers(r, tid) ==
    {q \in Reqs \ {r} : req[q].tid = tid /\ req[q].pc = "as_set"}

\* create_trace: Trace() with a fresh id, then save_trace: EXISTS and SET
\* with ex, the retention window.
\* At most max traces are created.
CreateTrace_upto(r, max) ==
    /\ Free(r)
    /\ nextTraceId <= max
    /\ traces' = [traces EXCEPT ![nextTraceId] = Trace(nextTraceId)]
    /\ nextTraceId' = nextTraceId + 1
    /\ req' = [req EXCEPT ![r] =
            [NewReq("create_trace", nextTraceId) EXCEPT !.pc = "ct_zadd"]]
    /\ ttl' = [ttl EXCEPT !.trace = @ \cup {nextTraceId}]
    /\ UNCHANGED <<sdkVars, traceList, states, spanChannel, nextSpanId, nextSnapId,
                   connVars, histVars, objVars>>

CreateTrace_set(r) == CreateTrace_upto(r, MaxTraces)

\* save_trace: ZADD and the publish of trace_created (EXISTS answered 0 for
\* the fresh id).
CreateTrace_zadd(r) ==
    /\ req[r].pc = "ct_zadd"
    /\ traceList' = traceList \cup {req[r].tid}
    /\ req' = [req EXCEPT ![r] =
            Finish([@ EXCEPT !.tev = @ + 1, !.event = "trace_created"], "ok")]
    /\ UNCHANGED <<sdkVars, ttl, traces, states, spanChannel, idVars, connVars, histVars,
                   objVars>>

\* create_span: get_trace, 404 without the trace, else Span() and the call
\* of add_span.
CreateSpan_check(r, t, kind, parent) ==
    /\ Free(r)
    /\ nextSpanId <= MaxSpans
    /\ IF traces[t] = NoTrace
       THEN /\ req' = [req EXCEPT ![r] = Finish(NewReq("create_span", t), "404")]
            /\ UNCHANGED nextSpanId
       ELSE /\ req' = [req EXCEPT ![r] =
                    [NewReq("create_span", t) EXCEPT
                        !.span = Span(nextSpanId, t, kind, parent),
                        !.sid = nextSpanId, !.pc = "as_get"]]
            /\ nextSpanId' = nextSpanId + 1
    /\ UNCHANGED <<sdkVars, storeVars, nextTraceId, nextSnapId, connVars, histVars,
                   objVars>>

\* batch_create_spans: get_trace, 404 without the trace, else the first
\* Span() of n and the call of add_span.  The n fresh ids are taken here.
BatchCreate_check(r, t, n, kind, parent) ==
    /\ Free(r)
    /\ nextSpanId + n - 1 <= MaxSpans
    /\ IF traces[t] = NoTrace
       THEN /\ req' = [req EXCEPT ![r] =
                    Finish(NewReq("batch_create_spans", t), "404")]
            /\ UNCHANGED nextSpanId
       ELSE /\ req' = [req EXCEPT ![r] =
                    [NewReq("batch_create_spans", t) EXCEPT
                        !.span = Span(nextSpanId, t, kind, parent),
                        !.sid = nextSpanId, !.left = n - 1, !.pc = "as_get"]]
            /\ nextSpanId' = nextSpanId + n
    /\ UNCHANGED <<sdkVars, storeVars, nextTraceId, nextSnapId, connVars, histVars,
                   objVars>>

\* RedisService.add_span: get_trace.  Without the trace it returns False:
\* create_span answers 404, batch_create_spans ignores the result and
\* broadcasts span_created all the same.  With it, Trace.add_span on the copy.
AddSpan_get(r, kind, parent) ==
    /\ req[r].pc = "as_get"
    /\ LET rq == req[r]
           others == Writers(r, rq.tid)
       IN IF traces[rq.tid] = NoTrace
          THEN req' = [req EXCEPT ![r] =
                  IF rq.op = "create_span" THEN Finish(rq, "404")
                  ELSE Broadcast(rq, SpanMsg("span_created", rq.span),
                                 kind, parent)]
          ELSE req' = [q \in Reqs |->
                  IF q = r
                  THEN [rq EXCEPT !.trace = Trace_add_span(traces[rq.tid], rq.span),
                                  !.found = TRUE, !.pc = "as_set",
                                  !.overlap = others # {}]
                  ELSE IF q \in others THEN [req[q] EXCEPT !.overlap = TRUE]
                  ELSE req[q]]
    /\ UNCHANGED <<sdkVars, storeVars, idVars, connVars, histVars, objVars>>

\* add_span's save_trace: EXISTS and SET of the whole aggregate.
AddSpan_set(r) ==
    /\ req[r].pc = "as_set"
    /\ traces' = [traces EXCEPT ![req[r].tid] = req[r].trace]
    /\ everStored' = everStored \cup SpanIdsOf(req[r].trace)
    /\ req' = [req EXCEPT ![r].pc = "as_zadd"]
    /\ ttl' = [ttl EXCEPT !.trace = @ \cup {req[r].tid}]
    /\ UNCHANGED <<sdkVars, traceList, states, spanChannel, idVars, connVars, deleted,
                   updCalls, last, objVars>>

\* add_span's save_trace: ZADD and the publish of trace_updated; then
\* add_span's publish of span_created, and the handler's broadcast.
AddSpan_zadd(r, kind, parent) ==
    /\ req[r].pc = "as_zadd"
    /\ traceList' = traceList \cup {req[r].tid}
    /\ spanChannel' = spanChannel \cup {SpanMsg("span_created", req[r].span)}
    /\ req' = [req EXCEPT ![r] =
            Broadcast([@ EXCEPT !.tev = @ + 1],
                      SpanMsg("span_created", req[r].span), kind, parent)]
    /\ UNCHANGED <<sdkVars, ttl, traces, states, idVars, connVars, histVars, objVars>>

\* update_span (router), lines 341-359: the request's fields onto the span.
ApplyPatch(span, patch) ==
    LET s1 == IF patch.status = "none" THEN span
              ELSE IF patch.status \in {"success", "error"}
                   THEN Span_complete([span EXCEPT !.status = patch.status],
                                      patch.status)
                   ELSE [span EXCEPT !.status = patch.status]
        s2 == IF patch.total_tokens = NoInt THEN s1
              ELSE [s1 EXCEPT !.total_tokens = patch.total_tokens]
        s3 == IF patch.cost_usd = NoInt THEN s2
              ELSE [s2 EXCEPT !.cost_usd = patch.cost_usd]
    IN IF patch.duration_ms = NoInt THEN s3
       ELSE [s3 EXCEPT !.duration_ms = patch.duration_ms]

\* update_span (router): get_trace, 404 without the trace or the span, else
\* the patched span and the call of RedisService.update_span.
UpdateSpan_check(r, t, sid, patch) ==
    /\ Free(r)
    /\ LET i == FindSpan(traces[t].spans, sid)
           rq == [NewReq("update_span", t) EXCEPT !.sid = sid]
       IN req' = [req EXCEPT ![r] =
            IF traces[t] = NoTrace \/ i = 0 THEN Finish(rq, "404")
            ELSE [rq EXCEPT !.span = ApplyPatch(traces[t].spans[i], patch),
                            !.pc = "us_get"]]
    /\ UNCHANGED <<sdkVars, storeVars, idVars, connVars, histVars, objVars>>

\* RedisService.update_span: get_trace, False (404) without the trace or
\* the span.  Otherwise the span is replaced in the copy and line 229 calls
\* trace.recalculate_aggregates(), an attribute that class Trace
\* (models/trace.py) does not have: AttributeError, nothing is saved, no
\* event is published or broadcast, and the request ends as a 500.
UpdateSpan_get(r) ==
    /\ req[r].pc = "us_get"
    /\ LET rq == req[r]
           i == FindSpan(traces[rq.tid].spans, rq.sid)
           missing == traces[rq.tid] = NoTrace \/ i = 0
       IN /\ req' = [req EXCEPT ![r] =
                IF missing THEN Finish(rq, "404")
                ELSE Finish([rq EXCEPT !.found = TRUE,
                                       !.overlap = Writers(r, rq.tid) # {}],
                            "500")]
          /\ updCalls' = IF missing THEN updCalls
                         ELSE [updCalls EXCEPT ![rq.sid] = IF @ = 0 THEN 1 ELSE 2]
    /\ UNCHANGED <<sdkVars, storeVars, idVars, connVars, everStored, deleted, last,
                   objVars>>

\* complete_trace: get_trace, 404 without the trace, else Trace.complete on
\* the copy and the call of update_trace.
Complete_get(r, t, status) ==
    /\ Free(r)
    /\ req' = [req EXCEPT ![r] =
            IF traces[t] = NoTrace
            THEN Finish(NewReq("complete_trace", t), "404")
            ELSE [NewReq("complete_trace", t) EXCEPT
                    !.trace = Trace_complete(traces[t], status),
                    !.pc = "ut_exists"]]
    /\ UNCHANGED <<sdkVars, storeVars, idVars, connVars, histVars, objVars>>

\* update_trace: EXISTS.  Without the key it returns False, which
\* complete_trace does not look at: it answers 200 with its copy.
UpdateTrace_exists(r) ==
    /\ req[r].pc = "ut_exists"
    /\ req' = [req EXCEPT ![r] =
            IF traces[req[r].tid] = NoTrace THEN Finish(@, "ok")
            ELSE [@ EXCEPT !.found = TRUE, !.pc = "ut_set"]]
    /\ UNCHANGED <<sdkVars, storeVars, idVars, connVars, histVars, objVars>>

\* update_trace's save_trace: EXISTS and SET.
UpdateTrace_set(r) ==
    /\ req[r].pc = "ut_set"
    /\ traces' = [traces EXCEPT ![req[r].tid] = req[r].trace]
    /\ everStored' = everStored \cup SpanIdsOf(req[r].trace)
    /\ req' = [req EXCEPT ![r].pc = "ut_zadd"]
    /\ ttl' = [ttl EXCEPT !.trace = @ \cup {req[r].tid}]
    /\ UNCHANGED <<sdkVars, traceList, states, spanChannel, idVars, connVars, deleted,
                   updCalls, last, objVars>>

\* save_trace: ZADD and the publish.  update_trace passes the event type
\* trace_updated; without one save_trace takes it from what EXISTS answered.
UpdateTrace_zadd(r) ==
    /\ req[r].pc = "ut_zadd"
    /\ traceList' = traceList \cup {req[r].tid}
    /\ req' = [req EXCEPT ![r] =
            Finish([@ EXCEPT !.tev = @ + 1,
                             !.event = IF req[r].op = "save_trace" /\ ~req[r].found
                                       THEN "trace_created"
                                       ELSE "trace_updated"], "ok")]
    /\ UNCHANGED <<sdkVars, ttl, traces, states, spanChannel, idVars, connVars, histVars,
                   objVars>>

\* RedisService.save_trace called with a Trace whose id t was given out
\* before (the same object saved again, or one built with that trace_id):
\* EXISTS.  Its SET and ZADD are UpdateTrace_set and UpdateTrace_zadd.
SaveTrace_exists(r, t) ==
    /\ Free(r)
    /\ t < nextTraceId
    /\ req' = [req EXCEPT ![r] =
            [NewReq("save_trace", t) EXCEPT
                !.trace = Trace(t),
                !.found = traces[t] # NoTrace,
                !.pc = "ut_set"]]
    /\ UNCHANGED <<sdkVars, storeVars, idVars, connVars, histVars, objVars>>

\* The retention window of a trace key is over: Redis removes the key.  The
\* time index is a sorted set without expiry and keeps the id.
TraceExpire(t) ==
    /\ t \in ttl.trace
    /\ traces' = [traces EXCEPT ![t] = NoTrace]
    /\ ttl' = [ttl EXCEPT !.trace = @ \ {t}]
    /\ UNCHANGED <<sdkVars, traceList, states, spanChannel, req, idVars, connVars,
                   histVars, objVars>>

\* ZREVRANGE 0 ScanWindow-1 of the time index: the ids by falling start
\* time, at most ScanWindow of them (500 in the router's call).
ScanWindow == 2

RECURSIVE Descending(_)
Descending(ids) ==
    IF ids = {} THEN <<>>
    ELSE LET m == CHOOSE x \in ids : \A y \in ids : y <= x
         IN <<m>> \o Descending(ids \ {m})

ZRevRange(ids, n) ==
    SubSeq(Descending(ids), 1, IF Cardinality(ids) < n THEN Cardinality(ids)
                               ELSE n)

\* traces[offset:offset + limit]
Slice(seq, offset, limit) ==
    SubSeq(seq, offset + 1,
           IF offset + limit < Len(seq) THEN offset + limit ELSE Len(seq))

\* The router's total and page once RedisService.list_traces has returned.
ListAnswer(rq) ==
    Finish([rq EXCEPT !.list.total = Len(rq.list.got),
                      !.list.page = Slice(rq.list.got, rq.list.offset,
                                          rq.list.limit)], "ok")

\* list_traces (router) up to the first get_trace of
\* RedisService.list_traces.
ListTraces_zrevrange(r, offset, limit, status) ==
    /\ Free(r)
    /\ LET rq == [NewReq("list_traces", None) EXCEPT
                    !.list = [NoList EXCEPT !.offset = offset,
                                            !.limit = limit,
                                            !.status = status,
                                            !.scan = ZRevRange(traceList,
                                                               ScanWindow)]]
       IN req' = [req EXCEPT ![r] =
            IF rq.list.scan = <<>> THEN ListAnswer(rq)
            ELSE [rq EXCEPT !.pc = "lt_get"]]
    /\ UNCHANGED <<sdkVars, storeVars, idVars, connVars, histVars, objVars>>

ListTraces_get_KeepsMissing(r) ==
    /\ req[r].pc = "lt_get"
    /\ LET rq == req[r]
           tid == Head(rq.list.scan)
           trace == traces[tid]
           keep == rq.list.status = "none" \/ trace.status = rq.list.status
           got == IF keep
                  THEN Append(rq.list.got,
                              [trace_id |-> tid, status |-> trace.status])
                  ELSE rq.list.got
           nx == [rq EXCEPT !.list.scan = Tail(@), !.list.got = got]
       IN req' = [req EXCEPT ![r] =
            IF nx.list.scan = <<>> THEN ListAnswer(nx) ELSE nx]
    /\ UNCHANGED <<sdkVars, storeVars, idVars, connVars, histVars, objVars>>

\* One get_trace of RedisService.list_traces: the trace is kept when its key
\* resolves and its status passes the filter; after the last one the router
\* counts and cuts its page.
ListTraces_get(r) ==
    /\ req[r].pc = "lt_get"
    /\ LET rq == req[r]
           tid == Head(rq.list.scan)
           trace == traces[tid]
           keep == /\ trace # NoTrace
                   /\ rq.list.status = "none" \/ trace.status = rq.list.status
           got == IF keep
                  THEN Append(rq.list.got,
                              [trace_id |-> tid, status |-> trace.status])
                  ELSE rq.list.got
           nx == [rq EXCEPT !.list.scan = Tail(@), !.list.got = got]
       IN req' = [req EXCEPT ![r] =
            IF nx.list.scan = <<>> THEN ListAnswer(nx) ELSE nx]
    /\ UNCHANGED <<sdkVars, storeVars, idVars, connVars, histVars, objVars>>

\* delete_trace: DEL of the trace key.  The id is one that create_trace
\* handed out: ids are uuid4 values, so no later trace gets the id of a
\* delete that came before it.
DeleteTrace_del(r, t) ==
    /\ Free(r)
    /\ t < nextTraceId
    /\ traces' = [traces EXCEPT ![t] = NoTrace]
    /\ req' = [req EXCEPT ![r] =
            [NewReq("delete_trace", t) EXCEPT
                !.pc = "dl_zrem",
                !.found = traces[t].spans # <<>> /\ states[t] # NoState]]
    /\ ttl' = [ttl EXCEPT !.trace = @ \ {t}]
    /\ UNCHANGED <<sdkVars, traceList, states, spanChannel, idVars, connVars, histVars,
                   objVars>>

\* delete_trace: ZREM from the time index.
DeleteTrace_zrem(r) ==
    /\ req[r].pc = "dl_zrem"
    /\ traceList' = traceList \ {req[r].tid}
    /\ req' = [req EXCEPT ![r].pc = "dl_state"]
    /\ UNCHANGED <<sdkVars, ttl, traces, states, spanChannel, idVars, connVars, histVars,
                   objVars>>

DeleteTrace_state_KeepsState(r) ==
    /\ req[r].pc = "dl_state"
    /\ deleted' = [deleted EXCEPT ![req[r].tid] =
            IF req[r].found \/ @ = "full" THEN "full" ELSE "plain"]
    /\ req' = [req EXCEPT ![r] = Finish(@, "ok")]
    /\ UNCHANGED <<sdkVars, storeVars, idVars, connVars, everStored, updCalls, last,
                   objVars>>

\* delete_trace: delete_state, DEL of the state key.
DeleteTrace_state(r) ==
    /\ req[r].pc = "dl_state"
    /\ states' = [states EXCEPT ![req[r].tid] = NoState]
    /\ deleted' = [deleted EXCEPT ![req[r].tid] =
            IF req[r].found \/ @ = "full" THEN "full" ELSE "plain"]
    /\ req' = [req EXCEPT ![r] = Finish(@, "ok")]
    /\ ttl' = [ttl EXCEPT !.state = @ \ {req[r].tid}]
    /\ pausedHist' = [pausedHist EXCEPT ![req[r].tid] = "never"]
    /\ UNCHANGED <<sdk, tracer, traces, traceList, spanChannel, idVars, connVars,
                   everStored, updCalls, last, objVars>>


\* ------------------------------------------------- routers/state.py
StateMsg(tid) == [type |-> "state_change", trace_id |-> tid, span_id |-> None]

\* The handlers that end with broadcast_state_change.
BroadcastingOps == {"modify_state", "bulk_modify_state", "pause_execution",
                    "resume_execution", "step_execution", "restore_snapshot"}

\* BulkModifyStateRequest: a container that is not given (None).
NotGiven == Leaf(NoInt)

\* RedisService.save_state: SET of the state key without ex, which leaves the
\* key without expiry, and the publish of state_updated; then the handler's
\* broadcast, if it has one.
SaveState_set(r) ==
    /\ req[r].pc = "ss_set"
    /\ states' = [states EXCEPT ![req[r].tid] = JsonCopy(req[r].state)]
    /\ req' = [req EXCEPT ![r] =
            LET rq == [@ EXCEPT !.sev = @ + 1] IN
            IF rq.op \in BroadcastingOps
            THEN Broadcast(rq, StateMsg(rq.tid), "chain", None)
            ELSE Finish(rq, "ok")]
    /\ ttl' = [ttl EXCEPT !.state = @ \ {req[r].tid}]
    /\ pausedHist' = [pausedHist EXCEPT ![req[r].tid] =
            CASE req[r].op = "initialize_state" -> "never"
              [] req[r].op = "pause_execution" -> "paused"
              [] req[r].op \in {"resume_execution", "step_execution"}
                 /\ @ = "paused" -> "resumed"
              [] OTHER -> @]
    /\ UNCHANGED <<sdk, tracer, traces, traceList, spanChannel, idVars, connVars, histVars,
                   objVars>>

\* get_state (router): RedisService.get_state, 404 without the state, else
\* the state is the response.  One GET, nothing is written or published.
GetState_get(r, t) ==
    /\ Free(r)
    /\ req' = [req EXCEPT ![r] =
            IF states[t] = NoState THEN Finish(NewReq("get_state", t), "404")
            ELSE Finish([NewReq("get_state", t) EXCEPT
                            !.found = TRUE,
                            !.body = [trace_id |-> t,
                                      status |-> states[t].control.status,
                                      resume_requested |->
                                        states[t].control.resume_requested]],
                        "ok")]
    /\ UNCHANGED <<sdkVars, storeVars, idVars, connVars, histVars, objVars>>

GetControl_get_ConsumesFlag(r, t) ==
    /\ Free(r)
    /\ req' = [req EXCEPT ![r] =
            Finish([NewReq("get_control_status", t) EXCEPT
                        !.found = states[t] # NoState,
                        !.body = [trace_id |-> t,
                                  status |-> IF states[t] = NoState THEN "unknown"
                                             ELSE states[t].control.status,
                                  resume_requested |->
                                    states[t].control.resume_requested]],
                   "ok")]
    /\ states' = [states EXCEPT ![t].control.resume_requested = FALSE]
    /\ UNCHANGED <<sdkVars, ttl, traces, traceList, spanChannel, idVars, connVars, histVars,
                   objVars>>

\* get_control_status: RedisService.get_state; without a state the answer
\* is a 200 with status "unknown" (and no resume_requested key, which the
\* client reads as false), else a 200 with the control's fields.
GetControl_get(r, t) ==
    /\ Free(r)
    /\ req' = [req EXCEPT ![r] =
            Finish([NewReq("get_control_status", t) EXCEPT
                        !.found = states[t] # NoState,
                        !.body = [trace_id |-> t,
                                  status |-> IF states[t] = NoState THEN "unknown"
                                             ELSE states[t].control.status,
                                  resume_requested |->
                                    states[t].control.resume_requested]],
                   "ok")]
    /\ UNCHANGED <<sdkVars, storeVars, idVars, connVars, histVars, objVars>>

\* initialize_state: get_trace, 404 without the trace, else a new AgentState
\* with a new ExecutionControl and the call of save_state.
Initialize_check(r, t, memory, context, variables) ==
    /\ Free(r)
    /\ req' = [req EXCEPT ![r] =
            IF traces[t] = NoTrace
            THEN Finish(NewReq("initialize_state", t), "404")
            ELSE [NewReq("initialize_state", t) EXCEPT
                    !.state = AgentState(t, memory, context, variables),
                    !.pc = "ss_set"]]
    /\ UNCHANGED <<sdkVars, storeVars, idVars, connVars, histVars, objVars>>

ModifyState_get_IgnoresResult(r, t, parts, value) ==
    /\ Free(r)
    /\ LET rq == [NewReq("modify_state", t) EXCEPT !.path = parts]
           m == AgentState_modify_state(states[t], parts, value)
       IN req' = [req EXCEPT ![r] =
            IF states[t] = NoState THEN Finish(rq, "404")
            ELSE [rq EXCEPT !.state = m.state, !.pc = "ss_set"]]
    /\ UNCHANGED <<sdkVars, storeVars, idVars, connVars, histVars, objVars>>

\* modify_state: get_state, 404 without the state, 400 when
\* AgentState.modify_state returns False, else the call of save_state.
ModifyState_get(r, t, parts, value) ==
    /\ Free(r)
    /\ LET rq == [NewReq("modify_state", t) EXCEPT !.path = parts]
           m == AgentState_modify_state(states[t], parts, value)
       IN req' = [req EXCEPT ![r] =
            IF states[t] = NoState THEN Finish(rq, "404")
            ELSE IF ~m.ok THEN Finish(rq, "400")
            ELSE [rq EXCEPT !.state = m.state, !.pc = "ss_set"]]
    /\ UNCHANGED <<sdkVars, storeVars, idVars, connVars, histVars, objVars>>

BulkAssign_ResetsControl(state, memory, context, variables) ==
    [state EXCEPT
        !.memory = IF memory = NotGiven THEN @ ELSE Own(memory),
        !.context = IF context = NotGiven THEN @ ELSE Own(context),
        !.variables = IF variables = NotGiven THEN @ ELSE Own(variables),
        !.control = ExecutionControl(state.trace_id)]

\* The assignments of bulk_modify_state: only the given containers.
BulkAssign(state, memory, context, variables) ==
    [state EXCEPT
        !.memory = IF memory = NotGiven THEN @ ELSE Own(memory),
        !.context = IF context = NotGiven THEN @ ELSE Own(context),
        !.variables = IF variables = NotGiven THEN @ ELSE Own(variables)]

\* bulk_modify_state: get_state, 404 without the state, else the given
\* containers are assigned and save_state is called.
BulkModify_get(r, t, memory, context, variables) ==
    /\ Free(r)
    /\ LET rq == NewReq("bulk_modify_state", t)
       IN req' = [req EXCEPT ![r] =
            IF states[t] = NoState THEN Finish(rq, "404")
            ELSE [rq EXCEPT
                    !.state = BulkAssign(states[t], memory, context, variables),
                    !.pc = "ss_set"]]
    /\ UNCHANGED <<sdkVars, storeVars, idVars, connVars, histVars, objVars>>

\* pause_execution / set_breakpoints: _ensure_trace_exists, 404 without
\* the trace.
EnsureTrace_check(r, op, t) ==
    /\ Free(r)
    /\ op \in {"pause_execution", "set_breakpoints"}
    /\ req' = [req EXCEPT ![r] =
            IF traces[t] = NoTrace THEN Finish(NewReq(op, t), "404")
            ELSE [NewReq(op, t) EXCEPT !.pc = "es_get"]]
    /\ UNCHANGED <<sdkVars, storeVars, idVars, connVars, histVars, objVars>>

\* The state a handler that creates a missing state works on.
StateOrNew(t) ==
    IF states[t] = NoState THEN AgentState(t, EmptyDict, EmptyDict, EmptyDict)
    ELSE states[t]

\* pause_execution: get_state (a new AgentState without one), control.pause
\* and the call of save_state.
Pause_get(r, span_id) ==
    /\ req[r].pc = "es_get"
    /\ req[r].op = "pause_execution"
    /\ req' = [req EXCEPT ![r] =
            [@ EXCEPT !.state =
                        [StateOrNew(req[r].tid) EXCEPT !.control =
                            ExecutionControl_pause(@, span_id)],
                      !.pc = "ss_set"]]
    /\ UNCHANGED <<sdkVars, storeVars, idVars, connVars, histVars, objVars>>

\* set_breakpoints: get_state (a new AgentState without one), both lists
\* are replaced, and the call of save_state.
Breakpoints_get(r, span_ids, agent_ids) ==
    /\ req[r].pc = "es_get"
    /\ req[r].op = "set_breakpoints"
    /\ req' = [req EXCEPT ![r] =
            [@ EXCEPT !.state =
                        [StateOrNew(req[r].tid) EXCEPT
                            !.control.breakpoint_spans = span_ids,
                            !.control.breakpoint_agents = agent_ids],
                      !.pc = "ss_set"]]
    /\ UNCHANGED <<sdkVars, storeVars, idVars, connVars, histVars, objVars>>

\* resume_execution: get_state, 404 without the state, else control.resume
\* and the call of save_state.
Resume_get(r, t) ==
    /\ Free(r)
    /\ LET rq == NewReq("resume_execution", t)
       IN req' = [req EXCEPT ![r] =
            IF states[t] = NoState THEN Finish(rq, "404")
            ELSE [rq EXCEPT !.state =
                                [states[t] EXCEPT !.control =
                                    ExecutionControl_resume(@)],
                            !.pc = "ss_set"]]
    /\ UNCHANGED <<sdkVars, storeVars, idVars, connVars, histVars, objVars>>

\* step_execution: get_state, 404 without the state, else
\* control.step(count) and the call of save_state.
Step_get(r, t, count) ==
    /\ Free(r)
    /\ LET rq == NewReq("step_execution", t)
       IN req' = [req EXCEPT ![r] =
            IF states[t] = NoState THEN Finish(rq, "404")
            ELSE [rq EXCEPT !.state =
                                [states[t] EXCEPT !.control =
                                    ExecutionControl_step(@, count)],
                            !.pc = "ss_set"]]
    /\ UNCHANGED <<sdkVars, storeVars, idVars, connVars, histVars, objVars>>

\* take_snapshot: get_state, 404 without the state, else
\* AgentState.take_snapshot (a fresh snapshot id) and the call of save_state.
TakeSnapshot_get(r, t, span_id) ==
    /\ Free(r)
    /\ nextSnapId <= MaxSnapshots
    /\ LET rq == NewReq("take_snapshot", t)
       IN IF states[t] = NoState
          THEN /\ req' = [req EXCEPT ![r] = Finish(rq, "404")]
               /\ UNCHANGED nextSnapId
          ELSE /\ req' = [req EXCEPT ![r] =
                    [rq EXCEPT !.state = AgentState_take_snapshot(
                                            states[t], nextSnapId, span_id),
                               !.sid = nextSnapId, !.pc = "ss_set"]]
               /\ nextSnapId' = nextSnapId + 1
    /\ UNCHANGED <<sdkVars, storeVars, nextTraceId, nextSpanId, connVars, histVars,
                   objVars>>

\* restore_snapshot: get_state, 404 without the state or the snapshot, else
\* the call of save_state.
RestoreSnapshot_get(r, t, snapshot_id) ==
    /\ Free(r)
    /\ LET rq == [NewReq("restore_snapshot", t) EXCEPT !.sid = snapshot_id]
           m == AgentState_restore_snapshot(states[t], snapshot_id)
       IN req' = [req EXCEPT ![r] =
            IF states[t] = NoState \/ ~m.ok THEN Finish(rq, "404")
            ELSE [rq EXCEPT !.state = m.state, !.pc = "ss_set"]]
    /\ UNCHANGED <<sdkVars, storeVars, idVars, connVars, histVars, objVars>>


\* ------------------------------------------ sdk/agent_lighthouse/client.py
\* wait_if_paused: the loop test on the deadline (expired: max_wait is over)
\* and the get_control_status request of one round going out.
WaitIfPaused_poll(t, expired) ==
    /\ \A r \in Reqs : req[r].pc = "idle"
    /\ \/ sdk.pc \in {"idle", "returned"}
       \/ sdk.pc = "sleep" /\ t = sdk.tid
    /\ sdk' = [fn |-> "wait_if_paused", tid |-> t,
               pc |-> IF expired THEN "returned" ELSE "sent",
               ret |-> IF expired THEN "false" ELSE "none"]
    /\ UNCHANGED <<pausedHist, tracer, storeVars, req, idVars, connVars, histVars,
                   objVars>>

\* wait_if_paused: the answer of the poll is in.  Paused: sleep and poll
\* again, or False when nothing remains of max_wait; else True with
\* resume_requested, and False without.
WaitIfPaused_status(r, expired) ==
    /\ sdk.fn = "wait_if_paused"
    /\ sdk.pc = "sent"
    /\ req[r].pc = "done"
    /\ req[r].op = "get_control_status"
    /\ req[r].body.trace_id = sdk.tid
    /\ last' = [f \in DOMAIN NoResponse |-> req[r][f]]
    /\ req' = [req EXCEPT ![r] = IdleReq]
    /\ sdk' = LET status == req[r].body IN
               CASE status.status = "paused" /\ expired ->
                        [sdk EXCEPT !.pc = "returned", !.ret = "false"]
                 [] status.status = "paused" /\ ~expired ->
                        [sdk EXCEPT !.pc = "sleep"]
                 [] status.status # "paused" /\ status.resume_requested ->
                        [sdk EXCEPT !.pc = "returned", !.ret = "true"]
                 [] OTHER -> [sdk EXCEPT !.pc = "returned", !.ret = "false"]
    /\ pausedHist' = [pausedHist EXCEPT ![sdk.tid] =
            IF @ = "resumed" /\ sdk'.ret = "true" THEN "seen" ELSE @]
    /\ UNCHANGED <<tracer, storeVars, idVars, connVars, everStored, deleted, updCalls,
                   objVars>>

\* update_state: the call, and its PUT going out.
UpdateState_call(t) ==
    /\ \A r \in Reqs : req[r].pc = "idle"
    /\ sdk.pc \in {"idle", "returned"}
    /\ sdk' = [fn |-> "update_state", tid |-> t, pc |-> "sent", ret |-> "none"]
    /\ UNCHANGED <<pausedHist, tracer, storeVars, req, idVars, connVars, histVars,
                   objVars>>

\* update_state: _safe_request returns for the first or the second PUT: the
\* parsed answer of a status below 400, or _EMPTY for an error status and
\* when it gave up (failed: every attempt timed out, though the backend
\* handled the request).  _EMPTY after the first PUT leads to
\* initialize_state, whose POST goes out; else update_state returns.
UpdateState_result(r, failed) ==
    /\ sdk.fn = "update_state"
    /\ sdk.pc \in {"sent", "retry"}
    /\ req[r].pc = "done"
    /\ req[r].op = "bulk_modify_state"
    /\ req[r].tid = sdk.tid
    /\ last' = [f \in DOMAIN NoResponse |-> req[r][f]]
    /\ req' = [req EXCEPT ![r] = IdleReq]
    /\ sdk' = LET result == IF failed \/ req[r].result # "ok" THEN "empty"
                            ELSE "state" IN
              IF sdk.pc = "sent" /\ result = "empty"
              THEN [sdk EXCEPT !.pc = "init"]
              ELSE [sdk EXCEPT !.pc = "returned", !.ret = result]
    /\ UNCHANGED <<pausedHist, tracer, storeVars, idVars, connVars, everStored, deleted,
                   updCalls, objVars>>

\* update_state: initialize_state has returned, whatever its outcome, and
\* the second PUT goes out.
UpdateState_initialized(r) ==
    /\ sdk.fn = "update_state"
    /\ sdk.pc = "init"
    /\ req[r].pc = "done"
    /\ req[r].op = "initialize_state"
    /\ req[r].tid = sdk.tid
    /\ last' = [f \in DOMAIN NoResponse |-> req[r][f]]
    /\ req' = [req EXCEPT ![r] = IdleReq]
    /\ sdk' = [sdk EXCEPT !.pc = "retry"]
    /\ UNCHANGED <<pausedHist, tracer, storeVars, idVars, connVars, everStored, deleted,
                   updCalls, objVars>>

\* ------------------------------------------ sdk/agent_lighthouse/tracer.py
MaxFrames == 2
MaxTracerIds == 3

\* _get_span_stack: the list the task's context holds, a new one of its own
\* when the variable is not set.
StackRef(k) == IF tracer.ref[k] = 0 THEN k ELSE tracer.ref[k]

\* stack[-1] if stack else None
TopOf(stack) == IF stack = <<>> THEN None ELSE stack[Len(stack)]

\* History: the innermost span context a task has open inside its innermost
\* trace context (None at top level).
RECURSIVE OwnOpenSpan(_)
OwnOpenSpan(fs) ==
    IF fs = <<>> THEN None
    ELSE LET f == fs[Len(fs)] IN
         IF f.id = None THEN OwnOpenSpan(SubSeq(fs, 1, Len(fs) - 1))
         ELSE IF f.kind = "span" THEN f.id ELSE None

\* A context manager that was entered: the trace or span id it got (None:
\* creation failed or no trace was active), the locals trace() keeps for
\* its finally, and as history what the stack and the trace id were.
Frame(kind, id, token, prev_stack, k) ==
    [kind |-> kind, id |-> id, token |-> token, prev_stack |-> prev_stack,
     was_stack |-> IF tracer.ref[k] = 0 THEN <<>> ELSE tracer.lists[tracer.ref[k]],
     was_trace |-> tracer.ctx[k]]

tracerRest == <<sdk, pausedHist, storeVars, req, idVars, connVars, histVars,
                objVars>>

\* trace(): create_trace (ok: it returned a trace_id), then the context
\* variables are set and the stack is emptied, up to the yield.
Tracer_trace(k, ok) ==
    /\ k \in tracer.started
    /\ Len(tracer.frames[k]) < MaxFrames
    /\ ok => tracer.next <= MaxTracerIds
    /\ tracer' =
        IF ~ok
        THEN [tracer EXCEPT !.frames[k] =
                Append(@, Frame("trace", None, None, <<>>, k))]
        ELSE LET stack == tracer.lists[StackRef(k)] IN
             [tracer EXCEPT
                !.ctx[k] = tracer.next,
                !.ref[k] = StackRef(k),
                !.lists[StackRef(k)] = <<>>,
                !.frames[k] = Append(@, Frame("trace", tracer.next,
                                               tracer.ctx[k], stack, k)),
                !.next = @ + 1]
    /\ UNCHANGED tracerRest

\* trace(): the body is left, normally or by an exception: complete_trace
\* and the finally block.
Tracer_trace_exit(k) ==
    /\ tracer.frames[k] # <<>>
    /\ LET fs == tracer.frames[k]
           f == fs[Len(fs)] IN
       /\ f.kind = "trace"
       /\ tracer' =
            IF f.id = None
            THEN [tracer EXCEPT !.frames[k] = SubSeq(fs, 1, Len(fs) - 1)]
            ELSE [tracer EXCEPT
                    !.ctx[k] = f.token,
                    !.lists[tracer.ref[k]] = f.prev_stack,
                    !.frames[k] = SubSeq(fs, 1, Len(fs) - 1)]
    /\ UNCHANGED tracerRest

\* span(): without an active trace the body just runs; else the parent is
\* read off the stack, create_span is called (ok: it returned a span_id)
\* and the span_id is pushed, up to the yield.
Tracer_span(k, ok) ==
    /\ k \in tracer.started
    /\ Len(tracer.frames[k]) < MaxFrames
    /\ (ok /\ tracer.ctx[k] # None) => tracer.next <= MaxTracerIds
    /\ tracer' =
        IF tracer.ctx[k] = None
        THEN [tracer EXCEPT !.frames[k] =
                Append(@, Frame("span", None, None, <<>>, k))]
        ELSE LET stack == tracer.lists[StackRef(k)] IN
             IF ~ok
             THEN [tracer EXCEPT
                    !.ref[k] = StackRef(k),
                    !.frames[k] = Append(@, Frame("span", None, None, <<>>, k))]
             ELSE [tracer EXCEPT
                    !.ref[k] = StackRef(k),
                    !.lists[StackRef(k)] = Append(@, tracer.next),
                    !.frames[k] = Append(@, Frame("span", tracer.next, None,
                                                   <<>>, k)),
                    !.spans = @ \cup {[span_id |-> tracer.next,
                                       trace_id |-> tracer.ctx[k],
                                       parent_span_id |-> TopOf(stack),
                                       task |-> k,
                                       own |-> OwnOpenSpan(tracer.frames[k])]},
                    !.next = @ + 1]
    /\ UNCHANGED tracerRest

\* span(): the body is left, normally or by an exception: update_span and
\* the finally block, which pops the span_id if it is on top.
Tracer_span_exit(k) ==
    /\ tracer.frames[k] # <<>>
    /\ LET fs == tracer.frames[k]
           f == fs[Len(fs)]
           stack == tracer.lists[StackRef(k)] IN
       /\ f.kind = "span"
       /\ tracer' =
            IF f.id # None /\ stack # <<>> /\ TopOf(stack) = f.id
            THEN [tracer EXCEPT
                    !.lists[StackRef(k)] = SubSeq(stack, 1, Len(stack) - 1),
                    !.frames[k] = SubSeq(fs, 1, Len(fs) - 1)]
            ELSE [tracer EXCEPT !.frames[k] = SubSeq(fs, 1, Len(fs) - 1)]
    /\ UNCHANGED tracerRest

\* The main task creates an asyncio task: the new task runs in a copy of
\* the main task's context, which holds the same trace id and the same list
\* object.
Tracer_spawn(k) ==
    /\ k \notin tracer.started
    /\ tracer' = [tracer EXCEPT
            !.started = @ \cup {k},
            !.ctx[k] = tracer.ctx[1],
            !.ref[k] = tracer.ref[1],
            !.inherit[k] = IF tracer.ref[1] = 0 THEN None
                           ELSE TopOf(tracer.lists[tracer.ref[1]])]
    /\ UNCHANGED tracerRest

\* ------------------------------------- one AgentState object, by method
\* The class used directly: any method on the same object in any order, the
\* router's assignments, and a JSON round trip (save_state, get_state) at
\* any point.  A handler is one method between two round trips.
Obj_construct(memory, context, variables) ==
    /\ obj' = AgentState(1, memory, context, variables)
    /\ orig' = <<>>
    /\ hist' = [NoHist EXCEPT !.op = "construct"]
    /\ UNCHANGED <<sdkVars, storeVars, req, idVars, connVars, histVars,
                   tobj, tree>>

Obj_take_snapshot(span_id) ==
    /\ Len(obj.snapshots) < MaxSnapshots
    /\ obj' = AgentState_take_snapshot(obj, Len(obj.snapshots) + 1, span_id)
    /\ orig' = Append(orig, LiveData(obj))
    /\ hist' = [NoHist EXCEPT !.op = "take_snapshot",
                              !.pure = Append(hist.pure, TRUE)]
    /\ UNCHANGED <<sdkVars, storeVars, req, idVars, connVars, histVars,
                   tobj, tree>>

Obj_restore_snapshot(snapshot_id) ==
    /\ LET m == AgentState_restore_snapshot(obj, snapshot_id)
           i == FindSnapshot(obj.snapshots, snapshot_id)
       IN /\ obj' = m.state
          /\ hist' = IF m.ok
                     THEN [op |-> "restore_snapshot", snap |-> i,
                           wasPure |-> hist.pure[i],
                           changed |-> LiveData(obj) # orig[i],
                           pure |-> [j \in 1..Len(hist.pure) |-> FALSE]]
                     ELSE [NoHist EXCEPT !.op = "restore_failed",
                                         !.pure = hist.pure]
    /\ UNCHANGED <<sdkVars, orig, storeVars, req, idVars, connVars, histVars,
                   tobj, tree>>

Obj_modify_state(parts, value) ==
    /\ obj' = AgentState_modify_state(obj, parts, value).state
    /\ hist' = [NoHist EXCEPT !.op = "modify_state", !.pure = hist.pure]
    /\ UNCHANGED <<sdkVars, orig, storeVars, req, idVars, connVars, histVars,
                   tobj, tree>>

Obj_bulk_assign(memory, context, variables) ==
    /\ obj' = BulkAssign(obj, memory, context, variables)
    /\ hist' = [NoHist EXCEPT !.op = "bulk_modify_state", !.pure = hist.pure]
    /\ UNCHANGED <<sdkVars, orig, storeVars, req, idVars, connVars, histVars,
                   tobj, tree>>

Obj_reload ==
    /\ obj' = JsonCopy(obj)
    /\ UNCHANGED <<sdkVars, orig, hist, storeVars, req, idVars, connVars, histVars,
                   tobj, tree>>

\* ---------------------------------------------------------------- inputs
Parents == {None} \cup SpanIds

Patches ==
    {[status |-> "success", total_tokens |-> 50, cost_usd |-> 5,
      duration_ms |-> NoInt],
     [status |-> "cancelled", total_tokens |-> NoInt, cost_usd |-> NoInt,
      duration_ms |-> NoInt],
     [status |-> "none", total_tokens |-> 50, cost_usd |-> NoInt,
      duration_ms |-> 1]}

A1 == Dict({<<"a", Leaf(1)>>})
A2 == Dict({<<"a", Leaf(2)>>})
B1 == Dict({<<"b", Leaf(1)>>})

Paths == {<<"memory", "a">>, <<"memory", "a", "b">>, <<"context", "a">>,
          <<"bogus", "a">>, <<"memory">>}
MemoryPaths == {<<"memory", "a">>, <<"bogus", "a">>, <<"memory">>}

\* ------------------------------------------------------- specifications
\* Spec: the span writes and delete_trace, the requests interleaved at every
\* await, and WebSocket clients that connect and subscribe.
Next ==
    \/ \E r \in Reqs : Respond(r)
    \/ \E r \in Reqs : CreateTrace_set(r)
    \/ \E r \in Reqs : CreateTrace_zadd(r)
    \/ \E r \in Reqs, t \in TraceIds : CreateSpan_check(r, t, "tool", None)
    \/ \E r \in Reqs, t \in TraceIds, n \in 1..MaxBatch :
            BatchCreate_check(r, t, n, "tool", None)
    \/ \E r \in Reqs : AddSpan_get(r, "tool", None)
    \/ \E r \in Reqs : AddSpan_set(r)
    \/ \E r \in Reqs : AddSpan_zadd(r, "tool", None)
    \/ \E r \in Reqs, t \in TraceIds, s \in SpanIds :
            UpdateSpan_check(r, t, s, [NoPatch EXCEPT !.status = "success"])
    \/ \E r \in Reqs : UpdateSpan_get(r)
    \/ \E r \in Reqs, t \in TraceIds : DeleteTrace_del(r, t)
    \/ \E r \in Reqs : DeleteTrace_zrem(r)
    \/ \E r \in Reqs : DeleteTrace_state(r)
    \/ \E r \in Reqs : Send(r, "tool", None)
    \/ \E c \in Conns : WsConnect(c)
    \/ \E c \in Conns, t \in TraceIds : WsSubscribe(c, t)

Spec == Init /\ [][Next]_vars

\* A request starts only when no other is in flight.
Quiet(r) == \A q \in Reqs \ {r} : req[q].pc = "idle"

\* SpecSpans: the handlers of routers/traces.py, one request after another,
\* spans of every kind and parent.
SpansNext ==
    \/ \E r \in Reqs : Respond(r)
    \/ \E r \in Reqs : Quiet(r) /\ CreateTrace_set(r)
    \/ \E r \in Reqs : CreateTrace_zadd(r)
    \/ \E r \in Reqs, t \in TraceIds, k \in SpanKind, p \in Parents :
            Quiet(r) /\ CreateSpan_check(r, t, k, p)
    \/ \E r \in Reqs, t \in TraceIds, n \in 1..MaxBatch, k \in SpanKind,
          p \in Parents : Quiet(r) /\ BatchCreate_check(r, t, n, k, p)
    \/ \E r \in Reqs, k \in SpanKind, p \in Parents : AddSpan_get(r, k, p)
    \/ \E r \in Reqs : AddSpan_set(r)
    \/ \E r \in Reqs, k \in SpanKind, p \in Parents : AddSpan_zadd(r, k, p)
    \/ \E r \in Reqs, t \in TraceIds, s \in SpanIds, patch \in Patches :
            Quiet(r) /\ UpdateSpan_check(r, t, s, patch)
    \/ \E r \in Reqs : UpdateSpan_get(r)
    \/ \E r \in Reqs, t \in TraceIds, st \in {"success", "error"} :
            Quiet(r) /\ Complete_get(r, t, st)
    \/ \E r \in Reqs : UpdateTrace_exists(r)
    \/ \E r \in Reqs : UpdateTrace_set(r)
    \/ \E r \in Reqs : UpdateTrace_zadd(r)
    \/ \E r \in Reqs, t \in TraceIds : Quiet(r) /\ DeleteTrace_del(r, t)
    \/ \E r \in Reqs : DeleteTrace_zrem(r)
    \/ \E r \in Reqs : DeleteTrace_state(r)

SpecSpans == Init /\ [][SpansNext]_vars

\* SpecSeq: the handlers of routers/state.py with create_trace, create_span
\* and delete_trace, one request after another.
SeqNext ==
    \/ \E r \in Reqs : Respond(r)
    \/ \E r \in Reqs : Quiet(r) /\ CreateTrace_set(r)
    \/ \E r \in Reqs : CreateTrace_zadd(r)
    \/ \E r \in Reqs, t \in TraceIds :
            Quiet(r) /\ CreateSpan_check(r, t, "chain", None)
    \/ \E r \in Reqs : AddSpan_get(r, "chain", None)
    \/ \E r \in Reqs : AddSpan_set(r)
    \/ \E r \in Reqs : AddSpan_zadd(r, "chain", None)
    \/ \E r \in Reqs, t \in TraceIds : Quiet(r) /\ DeleteTrace_del(r, t)
    \/ \E r \in Reqs : DeleteTrace_zrem(r)
    \/ \E r \in Reqs : DeleteTrace_state(r)
    \/ \E r \in Reqs, t \in TraceIds :
            Quiet(r) /\ Initialize_check(r, t, EmptyDict, EmptyDict, EmptyDict)
    \/ \E r \in Reqs, t \in TraceIds, parts \in MemoryPaths :
            Quiet(r) /\ ModifyState_get(r, t, parts, Leaf(1))
    \/ \E r \in Reqs, t \in TraceIds, m \in {NotGiven, A2} :
            Quiet(r) /\ BulkModify_get(r, t, m, NotGiven, NotGiven)
    \/ \E r \in Reqs, t \in TraceIds,
          op \in {"pause_execution", "set_breakpoints"} :
            Quiet(r) /\ EnsureTrace_check(r, op, t)
    \/ \E r \in Reqs : Pause_get(r, 1)
    \/ \E r \in Reqs : Breakpoints_get(r, <<1>>, <<>>)
    \/ \E r \in Reqs, t \in TraceIds : Quiet(r) /\ Resume_get(r, t)
    \/ \E r \in Reqs, t \in TraceIds : Quiet(r) /\ Step_get(r, t, 2)
    \/ \E r \in Reqs, t \in TraceIds : Quiet(r) /\ TakeSnapshot_get(r, t, 1)
    \/ \E r \in Reqs, t \in TraceIds, i \in 1..MaxSnapshots :
            Quiet(r) /\ RestoreSnapshot_get(r, t, i)
    \/ \E r \in Reqs : SaveState_set(r)

SpecSeq == Init /\ [][SeqNext]_vars

\* SpecObj: the methods of one AgentState object.
ObjNext ==
    \/ \E m \in {EmptyDict, A1} : Obj_construct(m, EmptyDict, EmptyDict)
    \/ Obj_take_snapshot(1)
    \/ \E i \in 1..MaxSnapshots : Obj_restore_snapshot(i)
    \/ \E parts \in Paths : Obj_modify_state(parts, Leaf(1))
    \/ \E m \in {NotGiven, A2}, v \in {NotGiven, B1} :
            Obj_bulk_assign(m, NotGiven, v)
    \/ Obj_reload

SpecObj == Init /\ [][ObjNext]_vars

\* SpecWs: create_trace, create_span and update_span, one request after
\* another, with WebSocket clients that connect, subscribe and go away.
WsNext ==
    \/ \E r \in Reqs : Respond(r)
    \/ \E r \in Reqs : Quiet(r) /\ CreateTrace_set(r)
    \/ \E r \in Reqs : CreateTrace_zadd(r)
    \/ \E r \in Reqs, t \in TraceIds :
            Quiet(r) /\ CreateSpan_check(r, t, "tool", None)
    \/ \E r \in Reqs : AddSpan_get(r, "tool", None)
    \/ \E r \in Reqs : AddSpan_set(r)
    \/ \E r \in Reqs : AddSpan_zadd(r, "tool", None)
    \/ \E r \in Reqs, t \in TraceIds, s \in SpanIds, patch \in Patches :
            Quiet(r) /\ UpdateSpan_check(r, t, s, patch)
    \/ \E r \in Reqs : UpdateSpan_get(r)
    \/ \E r \in Reqs : Send(r, "tool", None)
    \/ \E c \in Conns : WsConnect(c)
    \/ \E c \in Conns, t \in TraceIds : WsSubscribe(c, t)
    \/ \E c \in Conns : PeerClose(c)
    \/ \E c \in Conns : WsExit(c)

SpecWs == Init /\ [][WsNext]_vars

\* ---------------------------------------------------------------- claims
RECURSIVE SumTokens(_)
SumTokens(spans) ==
    IF spans = <<>> THEN 0 ELSE Head(spans).total_tokens + SumTokens(Tail(spans))

RECURSIVE SumCost(_)
SumCost(spans) ==
    IF spans = <<>> THEN 0 ELSE Head(spans).cost_usd + SumCost(Tail(spans))

CountKind(spans, kind) ==
    Cardinality({i \in 1..Len(spans) : spans[i].kind = kind})

IsPrefix(a, b) == Len(a) <= Len(b) /\ SubSeq(b, 1, Len(a)) = a

SpanEvents == {"span_created", "span_updated"}

\* The span events about span s of trace t among the messages a peer received.
AboutSpan(msgs, t, s) ==
    SelectSeq(msgs, LAMBDA m : m.type \in SpanEvents /\ m.trace_id = t
                                /\ m.span_id = s)

Idle == \A r \in Reqs : req[r].pc = "idle"

\* C1: the stored totals of every trace are the sums of total_tokens and
\* cost_usd over its spans, and an update_span that finds its span is a
\* successful write (whose tokens and cost the totals then reflect).
C1_TotalsFollowSpanWrites ==
    /\ \A t \in TraceIds :
        /\ traces[t].total_tokens = SumTokens(traces[t].spans)
        /\ traces[t].total_cost_usd = SumCost(traces[t].spans)
    /\ (last.op = "update_span" /\ last.found) => last.result = "ok"

\* C2: agent_count, tool_calls and llm_calls of every stored trace are the
\* numbers of its spans of kind agent, tool and llm.
C2_CountersAreCounts ==
    \A t \in TraceIds :
        /\ traces[t].agent_count = CountKind(traces[t].spans, "agent")
        /\ traces[t].tool_calls = CountKind(traces[t].spans, "tool")
        /\ traces[t].llm_calls = CountKind(traces[t].spans, "llm")

C2_TwoKindsStoredAndUpdateTried ==
    \E t \in TraceIds :
        /\ Len(traces[t].spans) = 2
        /\ traces[t].spans[1].kind = "tool"
        /\ traces[t].spans[2].kind = "llm"
        /\ last.op = "update_span"
        /\ last.found

\* C3: a span write that finds its target while another span write to the
\* same trace is between its get and its save reports success, update_span
\* included.
C3_OverlappingWritesSucceed ==
    (last.op \in {"create_span", "batch_create_spans", "update_span"}
        /\ last.found /\ last.overlap) => last.result = "ok"

\* C4: every span_created or span_updated event on the span channel or in a
\* subscriber's inbox names a span that is or was in the stored trace.
C4_EventsOnlyAfterStore ==
    /\ \A m \in spanChannel : m.span_id \in everStored
    /\ \A c \in Conns : \A i \in 1..Len(inbox[c]) :
        inbox[c][i].type \in SpanEvents => inbox[c][i].span_id \in everStored

\* C5: a connection that was subscribed when a span was created and still
\* is once the one update-span of that span has been answered has received
\* exactly span_created and then span_updated for it.
C5_CreatedThenUpdated ==
    \A c \in Conns, t \in TraceIds, s \in SpanIds :
        (/\ Idle
         /\ ws[c] = "open"
         /\ InSeq(trace_subscriptions[t].list, c)
         /\ AboutSpan(inbox[c], t, s) # <<>>
         /\ updCalls[s] = 1)
        => AboutSpan(inbox[c], t, s) =
            << [type |-> "span_created", trace_id |-> t, span_id |-> s],
               [type |-> "span_updated", trace_id |-> t, span_id |-> s] >>

\* C6: once delete_trace of a trace has completed, the trace key and the
\* state key are absent and the trace is not in the time index.
C6_DeletedIsGone ==
    \A t \in TraceIds :
        deleted[t] # "no" =>
            /\ traces[t] = NoTrace
            /\ states[t] = NoState
            /\ t \notin traceList

C6_DeletedWithSpansAndState == \E t \in TraceIds : deleted[t] = "full"

\* C7 as stated: every state operation, initialize included, leaves the
\* stored snapshots list a prefix of the list after it.
C7_SnapshotsOnlyGrow ==
    [][\A t \in TraceIds :
        (states[t] # NoState /\ states'[t] # NoState)
        => IsPrefix(states[t].snapshots, states'[t].snapshots)]_vars

\* C7: every state operation other than initialize (which stores a new
\* state without snapshots) leaves the stored snapshots list a prefix of the
\* list after it.
C7_SnapshotsGrowButForInitialize ==
    [][\A t \in TraceIds :
        (/\ states[t] # NoState
         /\ states'[t] # NoState
         /\ \A r \in Reqs : ~(req[r].pc = "ss_set" /\ req[r].tid = t
                               /\ req[r].op = "initialize_state"))
        => IsPrefix(states[t].snapshots, states'[t].snapshots)]_vars

C7_RestoredWithTwoSnapshots ==
    \E t \in TraceIds :
        /\ Len(states[t].snapshots) = 2
        /\ last.op = "restore_snapshot"
        /\ last.result = "ok"

\* C8: right after restore_snapshot of a snapshot that was taken with no
\* restore in between, memory, context, variables and messages are what
\* they were when it was taken.
C8_RestoreGivesBackSnapshot ==
    (hist.op = "restore_snapshot" /\ hist.wasPure)
        => LiveData(obj) = orig[hist.snap]

C8_RestoredAfterMutation ==
    /\ hist.op = "restore_snapshot"
    /\ hist.wasPure
    /\ hist.changed
    /\ LiveData(obj) = orig[hist.snap]

\* C9: the data of every snapshot of an AgentState is what was captured
\* when the snapshot was taken, whatever methods were called since.
C9_SnapshotsNeverChange ==
    \A i \in 1..Len(orig) : obj.snapshots[i].state_data = orig[i]

\* C10: control.status of every stored state is running, paused or step.
C10_StatusNeverStopped ==
    \A t \in TraceIds :
        states[t] # NoState =>
            states[t].control.status \in {"running", "paused", "step"}

C10_StepAfterPause ==
    \E t \in TraceIds :
        /\ states[t].control.status = "step"
        /\ states[t].control.paused_at # None
        /\ states[t].snapshots # <<>>

\* The handlers whose save_state is the step being taken on trace t.
SavingOps(t) ==
    {req[r].op : r \in {q \in Reqs : req[q].pc = "ss_set" /\ req[q].tid = t}}

\* C11 as stated: a stored control that is paused and then is not went to
\* running, by resume_execution.
C11_PausedUntilResume ==
    [][\A t \in TraceIds :
        (/\ states[t] # NoState
         /\ states'[t] # NoState
         /\ states[t].control.status = "paused"
         /\ states'[t].control.status # "paused")
        => (/\ SavingOps(t) = {"resume_execution"}
            /\ states'[t].control.status = "running")]_vars

\* C11: a stored control that is paused and then is not was changed by
\* resume_execution (to running), by step_execution (to step) or by
\* initialize_state (a new state, running); pause, set-breakpoints, the state
\* mutations and the snapshot operations leave it paused.
C11_PausedUntilResumeStepOrInitialize ==
    [][\A t \in TraceIds :
        (/\ states[t] # NoState
         /\ states'[t] # NoState
         /\ states[t].control.status = "paused"
         /\ states'[t].control.status # "paused")
        => \/ /\ SavingOps(t) = {"resume_execution"}
              /\ states'[t].control.status = "running"
           \/ /\ SavingOps(t) = {"step_execution"}
              /\ states'[t].control.status = "step"
           \/ /\ SavingOps(t) = {"initialize_state"}
              /\ states'[t].control.status = "running"]_vars

C11_MutatedWhilePaused ==
    \E t \in TraceIds :
        /\ states[t].control.status = "paused"
        /\ Live(states[t], "memory") # EmptyDict
        /\ states[t].snapshots # <<>>
        /\ last.op = "bulk_modify_state"
        /\ last.result = "ok"

\* What pause and resume are to leave alone.
SameButPauseFields(s1, s2) ==
    /\ s2.control.breakpoint_spans = s1.control.breakpoint_spans
    /\ s2.control.breakpoint_agents = s1.control.breakpoint_agents
    /\ s2.control.step_count = s1.control.step_count
    /\ s2.control.current_step = s1.control.current_step
    /\ LiveData(s2) = LiveData(s1)
    /\ s2.snapshots = s1.snapshots

\* C12: the save of pause_execution stores paused with resume_requested
\* false, the save of resume_execution stores running with
\* resume_requested true and no pause time or span, whatever the control was
\* before, and both leave the breakpoints, step_count, current_step, the
\* containers, messages and snapshots of the stored state as they were.
C12_PauseThenResume ==
    [][\A t \in TraceIds :
        (states[t] # NoState /\ states'[t] # states[t]
            /\ SavingOps(t) \in {{"pause_execution"}, {"resume_execution"}})
        => /\ SameButPauseFields(states[t], states'[t])
           /\ SavingOps(t) = {"pause_execution"} =>
                /\ states'[t].control.status = "paused"
                /\ states'[t].control.paused_at # None
                /\ ~states'[t].control.resume_requested
           /\ SavingOps(t) = {"resume_execution"} =>
                /\ states'[t].control.status = "running"
                /\ states'[t].control.resume_requested
                /\ states'[t].control.paused_at = None
                /\ states'[t].control.paused_span_id = None]_vars

\* resume_execution is about to save right after a pause_execution, on a
\* state with breakpoints, steps, data and a snapshot.
C12_ResumeAfterPause ==
    \E t \in TraceIds, r \in Reqs :
        /\ last.op = "pause_execution"
        /\ last.result = "ok"
        /\ states[t].control.status = "paused"
        /\ states[t].control.paused_span_id # None
        /\ states[t].control.step_count > 0
        /\ states[t].control.breakpoint_spans # <<>>
        /\ states[t].snapshots # <<>>
        /\ Live(states[t], "memory") # EmptyDict
        /\ req[r].op = "resume_execution"
        /\ req[r].pc = "ss_set"
        /\ req[r].tid = t
        /\ req[r].state.control.status = "running"

\* SpecCtl: the execution-control handlers and the two read handlers of
\* routers/state.py, one request after another.
CtlNext ==
    \/ \E r \in Reqs : Respond(r)
    \/ \E r \in Reqs : Quiet(r) /\ CreateTrace_set(r)
    \/ \E r \in Reqs : CreateTrace_zadd(r)
    \/ \E r \in Reqs, t \in TraceIds :
            Quiet(r) /\ Initialize_check(r, t, A1, EmptyDict, EmptyDict)
    \/ \E r \in Reqs, t \in TraceIds :
            Quiet(r) /\ EnsureTrace_check(r, "pause_execution", t)
    \/ \E r \in Reqs, s \in {None, 1} : Pause_get(r, s)
    \/ \E r \in Reqs, t \in TraceIds : Quiet(r) /\ Resume_get(r, t)
    \/ \E r \in Reqs, t \in TraceIds, n \in {1, 3} :
            Quiet(r) /\ Step_get(r, t, n)
    \/ \E r \in Reqs : SaveState_set(r)
    \/ \E r \in Reqs, t \in TraceIds : Quiet(r) /\ GetState_get(r, t)
    \/ \E r \in Reqs, t \in TraceIds : Quiet(r) /\ GetControl_get(r, t)
    \/ \E r \in Reqs, t \in TraceIds : Quiet(r) /\ DeleteTrace_del(r, t)
    \/ \E r \in Reqs : DeleteTrace_zrem(r)
    \/ \E r \in Reqs : DeleteTrace_state(r)

SpecCtl == Init /\ [][CtlNext]_vars

ReadOps == {"get_state", "get_control_status"}

\* C13: the step in which get_state or get_control_status runs leaves every
\* stored trace and state, the index, the span channel and every inbox as
\* they were, and the handler has published no event.
C13_ReadingNeverMutates ==
    [][\A r \in Reqs :
        (req'[r].op \in ReadOps /\ req'[r] # req[r] /\ req'[r].pc = "done")
        => /\ states' = states
           /\ traces' = traces
           /\ traceList' = traceList
           /\ spanChannel' = spanChannel
           /\ inbox' = inbox
           /\ req'[r].sev = 0
           /\ req'[r].tev = 0]_vars

\* Both reads have answered for a state that is stepping after a pause.
C13_ReadOfSteppingState ==
    \E t \in TraceIds :
        /\ last.op = "get_state"
        /\ last.result = "ok"
        /\ \E r \in Reqs :
            /\ req[r].op = "get_control_status"
            /\ req[r].pc = "done"
            /\ req[r].body.status = "step"
            /\ req[r].body.resume_requested
        /\ states[t].control.status = "step"
        /\ states[t].control.paused_at # None

\* C14: when two answers in a row are control polls of the same trace (no
\* resume or step has been answered in between) and the first one carried
\* resume_requested = true, the second one carries false.
C14_ResumeFlagConsumedOnce ==
    [][\A r \in Reqs :
        (/\ req[r].pc = "done"
         /\ req'[r].pc = "idle"
         /\ req[r].op = "get_control_status"
         /\ last.op = "get_control_status"
         /\ last.body.trace_id = req[r].body.trace_id
         /\ last.body.resume_requested)
        => ~req[r].body.resume_requested]_vars

\* C15: resume_execution, step_execution and get_control_status on a trace
\* without a stored state answer 404 and leave the store as it was.
C15_NoStateIsNotFound ==
    [][\A r \in Reqs :
        (/\ req[r].pc = "idle"
         /\ req'[r].pc # "idle"
         /\ req'[r].op \in {"resume_execution", "step_execution",
                            "get_control_status"}
         /\ states[req'[r].tid] = NoState)
        => /\ req'[r].pc = "done"
           /\ req'[r].result = "404"
           /\ states' = states
           /\ traces' = traces]_vars

\* SpecMod: modify_state over nested paths on states that were initialized,
\* paused and snapshotted once, one request after another, with a WebSocket
\* client that may subscribe.  MaxInbox caps what the client is sent.
MaxInbox == 2

ModValue == Leaf(2)

ModPaths == {<<"memory", "a">>, <<"memory", "a", "b">>, <<"memory", "a", "d">>,
             <<"memory", "a", "b", "c">>, <<"context", "a">>,
             <<"bogus", "a">>, <<"memory">>}

ModNext ==
    \/ \E r \in Reqs : Respond(r)
    \/ \E r \in Reqs : Quiet(r) /\ CreateTrace_set(r)
    \/ \E r \in Reqs : CreateTrace_zadd(r)
    \/ \E r \in Reqs, t \in TraceIds, m \in {EmptyDict, A1} :
            Quiet(r) /\ Initialize_check(r, t, m, EmptyDict, B1)
    \/ \E r \in Reqs, t \in TraceIds, parts \in ModPaths :
            /\ Quiet(r)
            /\ \A c \in Conns : Len(inbox[c]) < MaxInbox
            /\ ModifyState_get(r, t, parts, ModValue)
    \/ \E r \in Reqs, t \in TraceIds :
            /\ Quiet(r)
            /\ \A c \in Conns : Len(inbox[c]) < MaxInbox
            /\ EnsureTrace_check(r, "pause_execution", t)
    \/ \E r \in Reqs : Pause_get(r, 1)
    \/ \E r \in Reqs, t \in TraceIds :
            /\ Quiet(r)
            /\ states[t].snapshots = <<>>
            /\ TakeSnapshot_get(r, t, 1)
    \/ \E r \in Reqs : SaveState_set(r)
    \/ \E r \in Reqs : Send(r, "chain", None)
    \/ \E c \in Conns : WsConnect(c)
    \/ \E c \in Conns, t \in TraceIds : WsSubscribe(c, t)

SpecMod == Init /\ [][ModNext]_vars

\* Every existing non-terminal key of key_path holds a dict.
RECURSIVE Walkable(_, _)
Walkable(container, key_path) ==
    \/ Len(key_path) = 1
    \/ Head(key_path) \notin DictKeys(container)
    \/ /\ DictGet(container, Head(key_path)).t = "dict"
       /\ Walkable(DictGet(container, Head(key_path)), Tail(key_path))

\* new is old with value at key_path: along the path every dict keeps its
\* other keys and their values, a missing dict on the way counts as empty.
RECURSIVE SetAlong(_, _, _, _)
SetAlong(old, new, key_path, value) ==
    LET key == Head(key_path) IN
    /\ new.t = "dict"
    /\ DictKeys(new) = DictKeys(old) \cup {key}
    /\ \A k \in DictKeys(old) \ {key} : DictGet(new, k) = DictGet(old, k)
    /\ IF Len(key_path) = 1 THEN DictGet(new, key) = value
       ELSE SetAlong(IF key \in DictKeys(old) THEN DictGet(old, key)
                     ELSE EmptyDict,
                     DictGet(new, key), Tail(key_path), value)

ValidPath(state, parts) ==
    /\ Len(parts) >= 2
    /\ parts[1] \in Containers
    /\ Walkable(Live(state, parts[1]), Tail(parts))

\* C16: a modify_state whose path names a container and crosses only dicts
\* sets the value at the nested path, creating the missing dicts on the way,
\* and keeps every other key of the container, the two other containers,
\* messages, snapshots and control; save_state then stores exactly that.
C16_ModifySetsOnlyThePath ==
    [][/\ \A r \in Reqs, t \in TraceIds, parts \in ModPaths :
            (/\ ModifyState_get(r, t, parts, ModValue)
             /\ states[t] # NoState
             /\ ValidPath(states[t], parts))
            => /\ req'[r].pc = "ss_set"
               /\ SetAlong(Live(states[t], parts[1]),
                           Live(req'[r].state, parts[1]), Tail(parts), ModValue)
               /\ \A c \in Containers \ {parts[1]} :
                      Live(req'[r].state, c) = Live(states[t], c)
               /\ req'[r].state.messages = states[t].messages
               /\ req'[r].state.snapshots = states[t].snapshots
               /\ req'[r].state.control = states[t].control
       /\ \A r \in Reqs :
            (req[r].pc = "ss_set" /\ req[r].op = "modify_state"
             /\ req'[r].pc # "ss_set")
            => /\ LiveData(states'[req[r].tid]) = LiveData(req[r].state)
               /\ states'[req[r].tid].snapshots = req[r].state.snapshots
               /\ states'[req[r].tid].control = req[r].state.control
               /\ \A u \in TraceIds \ {req[r].tid} : states'[u] = states[u]
      ]_vars

\* memory.a.b was set in a state that had memory.a.d, a snapshot and a pause.
C16_NestedKeySetBesideSibling ==
    \E r \in Reqs :
        /\ req[r].op = "modify_state"
        /\ req[r].pc = "done"
        /\ req[r].result = "ok"
        /\ states[1] # NoState
        /\ Live(states[1], "memory") =
                Dict({<<"a", Dict({<<"b", ModValue>>, <<"d", ModValue>>})>>})
        /\ states[1].snapshots # <<>>
        /\ states[1].control.status = "paused"

\* C17: a modify_state whose path has fewer than two segments, names no
\* container or crosses a value that is not a dict is answered 400; the
\* AgentState object is left as it was read, nothing is stored or published
\* and no subscriber is sent anything.
C17_InvalidPathChangesNothing ==
    [][\A r \in Reqs, t \in TraceIds, parts \in ModPaths :
        (/\ ModifyState_get(r, t, parts, ModValue)
         /\ states[t] # NoState
         /\ ~ValidPath(states[t], parts))
        => /\ req'[r].pc = "done"
           /\ req'[r].result = "400"
           /\ req'[r].sev = 0
           /\ ~AgentState_modify_state(states[t], parts, ModValue).ok
           /\ AgentState_modify_state(states[t], parts, ModValue).state
                = states[t]
           /\ UNCHANGED <<storeVars, connVars>>]_vars

\* memory.a.b was rejected on a state whose memory.a is a leaf, while an
\* open connection subscribes to the trace.
C17_RejectedBelowLeaf ==
    \E r \in Reqs, c \in Conns :
        /\ req[r].op = "modify_state"
        /\ req[r].pc = "done"
        /\ req[r].result = "400"
        /\ req[r].path = <<"memory", "a", "b">>
        /\ DictGet(Live(states[req[r].tid], "memory"), "a").t = "leaf"
        /\ ws[c] = "open"
        /\ InSeq(trace_subscriptions[req[r].tid].list, c)

\* SpecBc: the ConnectionManager with several clients that connect,
\* subscribe, unsubscribe and go away at any moment, under create_span (one
\* request after another) and calls of broadcast.
BcNext ==
    \/ \E r \in Reqs : Respond(r)
    \/ \E r \in Reqs : Quiet(r) /\ CreateTrace_set(r)
    \/ \E r \in Reqs : CreateTrace_zadd(r)
    \/ \E r \in Reqs, t \in TraceIds :
            Quiet(r) /\ CreateSpan_check(r, t, "tool", None)
    \/ \E r \in Reqs : AddSpan_get(r, "tool", None)
    \/ \E r \in Reqs : AddSpan_set(r)
    \/ \E r \in Reqs : AddSpan_zadd(r, "tool", None)
    \/ \E r \in Reqs :
            /\ Quiet(r)
            /\ \A c \in Peers : Len(inbox[c]) < MaxInbox
            /\ BroadcastAll(r)
    \/ \E r \in Reqs : Send(r, "tool", None)
    \/ \E c \in Peers : WsConnect(c)
    \/ \E c \in Peers, t \in SubIds : WsSubscribe(c, t)
    \/ \E c \in Peers, t \in SubIds : WsUnsubscribe(c, t)
    \/ \E c \in Peers : PeerClose(c)
    \/ \E c \in Peers : WsExit(c)

SpecBc == Init /\ [][BcNext]_vars

\* The connections whose send raised in the broadcast of request r, seen at
\* its last send.
FailedIn(r) ==
    {c \in Peers : \/ InSeq(req[r].dead, c)
                   \/ c = Head(req[r].targets) /\ ws[c] # "open"}

\* C18: when broadcast or broadcast_to_trace returns, every connection whose
\* send raised during it is out of active_connections and out of every
\* subscriber list.
C18_FailedSendDisconnects ==
    [][\A r \in Reqs :
        (req[r].pc = "send" /\ req'[r].pc # "send")
        => \A c \in FailedIn(r) :
            /\ ~InSeq(active_connections', c)
            /\ \A t \in SubIds : ~InSeq(trace_subscriptions'[t].list, c)]_vars

\* A create_span has returned whose broadcast dropped both clients: their
\* peers are closed, their endpoints have not yet run their own disconnect.
C18_BothDroppedByBroadcast ==
    \E r \in Reqs :
        /\ req[r].op = "create_span"
        /\ req[r].pc = "done"
        /\ req[r].result = "ok"
        /\ \A c \in Peers : ws[c] = "closed" /\ ~InSeq(active_connections, c)

NoDup(list) ==
    \A i, j \in 1..Len(list) : i # j => list[i] # list[j]

Subscribed(c, t) == InSeq(trace_subscriptions[t].list, c)

\* C19: a connection is at most once in a subscriber list; a subscribe of a
\* member and an unsubscribe of a non-member change nothing; the broadcast
\* of create_span on trace T goes over the subscribers of T as they are when
\* it starts, one send each, every send adding one message about T to that
\* connection's inbox and to no other; without the key or with an empty
\* list the handler returns its span with nothing sent.
C19_SubscribeIdempotentBroadcastTargeted ==
    [][/\ \A t \in SubIds : NoDup(trace_subscriptions[t].list)
       /\ \A t \in SubIds : NoDup(trace_subscriptions'[t].list)
       /\ \A c \in Peers, s \in SpanIds : Len(AboutSpan(inbox[c], 1, s)) <= 1
       /\ \A c \in Peers, t \in SubIds :
            /\ (WsSubscribe(c, t) /\ Subscribed(c, t))
                => trace_subscriptions' = trace_subscriptions
            /\ (WsUnsubscribe(c, t) /\ ~Subscribed(c, t))
                => trace_subscriptions' = trace_subscriptions
            /\ (WsUnsubscribe(c, t) /\ Subscribed(c, t))
                => /\ trace_subscriptions'[t] =
                        [key |-> TRUE,
                         list |-> Remove(trace_subscriptions[t].list, c)]
                   /\ \A u \in SubIds \ {t} :
                        trace_subscriptions'[u] = trace_subscriptions[u]
       /\ \A r \in Reqs :
            (req[r].pc = "as_zadd" /\ req'[r].pc # "as_zadd"
             /\ req[r].op = "create_span")
            => LET sub == trace_subscriptions[req[r].tid] IN
               /\ inbox' = inbox
               /\ IF ~sub.key \/ sub.list = <<>>
                  THEN req'[r].pc = "done" /\ req'[r].result = "ok"
                  ELSE /\ req'[r].pc = "send"
                       /\ req'[r].targets = sub.list
                       /\ req'[r].msg.trace_id = req[r].tid
       /\ \A r \in Reqs :
            (req[r].pc = "send" /\ req'[r] # req[r])
            => /\ NoDup(req[r].targets)
               /\ req'[r].pc = "send" => req'[r].targets = Tail(req[r].targets)
               /\ req'[r].pc # "send" => Len(req[r].targets) = 1
               /\ \A c \in Peers :
                    inbox'[c] = IF c = Head(req[r].targets) /\ ws[c] = "open"
                                THEN Append(inbox[c], req[r].msg)
                                ELSE inbox[c]
      ]_vars

\* Client 1 was sent span 1 and unsubscribed, which left the key of trace 1
\* with an empty list; span 2 was then created and sent to nobody, neither
\* to client 1 nor to client 2, who subscribes to another id.
C19_NothingSentAfterUnsubscribe ==
    \E r \in Reqs :
        /\ req[r].op = "create_span"
        /\ req[r].pc = "done"
        /\ req[r].result = "ok"
        /\ Len(traces[1].spans) = 2
        /\ trace_subscriptions[1] = [key |-> TRUE, list |-> <<>>]
        /\ ws[1] = "open"
        /\ inbox[1] = <<[type |-> "span_created", trace_id |-> 1,
                         span_id |-> 1]>>
        /\ ws[2] = "open"
        /\ Subscribed(2, 2)
        /\ inbox[2] = <<>>

\* C20: in the broadcast of a create_span a send that raises ends neither
\* the broadcast nor the request: the loop goes on to the connections that
\* are left, each of which is sent the message if its peer is there, and the
\* handler returns its span, which stays stored in the trace.
C20_SendFailureAbsorbed ==
    [][\A r \in Reqs :
        (req[r].pc = "send" /\ req[r].op = "create_span" /\ req'[r] # req[r])
        => LET c == Head(req[r].targets)
               failed == ws[c] # "open"
           IN /\ traces' = traces
              /\ req[r].span.span_id \in SpanIdsOf(traces[req[r].tid])
              /\ failed =>
                    IF Len(req[r].targets) = 1
                    THEN req'[r].pc = "done" /\ req'[r].result = "ok"
                    ELSE /\ req'[r].pc = "send"
                         /\ req'[r].targets = Tail(req[r].targets)
                         /\ req'[r].msg = req[r].msg
              /\ (~failed /\ req[r].dead # <<>>) =>
                    inbox'[c] = Append(inbox[c], req[r].msg)
              /\ req'[r].pc = "done" => req'[r].result = "ok"]_vars

\* Both clients were sent span 1; the send of span 2 to client 1 raised and
\* dropped it, client 2 was sent span 2 and create_span returned its span.
C20_OtherSubscriberStillSent ==
    \E r \in Reqs :
        /\ req[r].op = "create_span"
        /\ req[r].pc = "done"
        /\ req[r].result = "ok"
        /\ Len(traces[1].spans) = 2
        /\ ws[1] = "closed"
        /\ ~InSeq(active_connections, 1)
        /\ inbox[1] = <<[type |-> "span_created", trace_id |-> 1,
                         span_id |-> 1]>>
        /\ ws[2] = "open"
        /\ inbox[2] = <<[type |-> "span_created", trace_id |-> 1,
                         span_id |-> 1],
                        [type |-> "span_created", trace_id |-> 1,
                         span_id |-> 2]>>

\* SpecHb: WebSocket clients with their heartbeat, under calls of
\* broadcast.  The endpoint coroutine is resumed when its receive_text
\* raises, which is the fairness of WsExit.
HbNext ==
    \/ \E r \in Reqs : Respond(r)
    \/ \E r \in Reqs :
            /\ Quiet(r)
            /\ \A c \in Peers : Len(inbox[c]) < MaxInbox
            /\ BroadcastAll(r)
    \/ \E r \in Reqs : Send(r, "tool", None)
    \/ \E c \in Peers : WsConnect(c)
    \/ \E c \in Peers, t \in SubIds : WsSubscribe(c, t)
    \/ \E c \in Peers, t \in SubIds : WsUnsubscribe(c, t)
    \/ \E c \in Peers : PeerClose(c)
    \/ \E c \in Peers : PeerStale(c)
    \/ \E c \in Peers : Heartbeat(c)
    \/ \E c \in Peers : WsExit(c)

SpecHb == Init /\ [][HbNext]_vars /\ \A c \in Peers : WF_vars(WsExit(c))

Removed(c) ==
    /\ ~InSeq(active_connections, c)
    /\ \A t \in SubIds : ~Subscribed(c, t)

\* C21: a connection whose heartbeat probe failed is closed and is in the
\* end out of active_connections and out of every subscriber list, whether
\* or not a broadcast to it ever fails.
C21_ProbedIsReaped ==
    \A c \in Peers : (ws[c] = "probed") ~> Removed(c)

\* The probe of a subscribed client failed after it had been sent a
\* broadcast; no send of a broadcast to it has failed: it is still active.
C21_ProbeFailedBeforeAnyBroadcast ==
    \E c \in Peers, t \in SubIds :
        /\ ws[c] = "probed"
        /\ InSeq(active_connections, c)
        /\ Subscribed(c, t)
        /\ inbox[c] # <<>>

Ended(span) ==
    span.status # "running" => span.end_time # None /\ span.duration_ms # None

\* C22: a span that is not running has its end_time and duration_ms, in
\* the store and in the span update_span has patched and hands to
\* RedisService.update_span, whatever the status of the patch.
C22_EndedSpansHaveEndTime ==
    /\ \A t \in TraceIds : \A i \in 1..Len(traces[t].spans) :
            Ended(traces[t].spans[i])
    /\ \A r \in Reqs :
            (req[r].op = "update_span" /\ req[r].pc = "us_get")
            => Ended(req[r].span)

\* SpecTree: one Trace object that is given spans (fresh ids, any parent:
\* none, a span of the trace, an id the trace does not have) and asked for
\* its tree.
MaxTreeSpans == 4

TObj_add_span(parent) ==
    /\ Len(tobj.spans) < MaxTreeSpans
    /\ tobj' = Trace_add_span(tobj, Span(Len(tobj.spans) + 1, 1, "chain",
                                         parent))
    /\ hist' = [NoHist EXCEPT !.op = "add_span"]
    /\ UNCHANGED <<sdkVars, tree, obj, orig, storeVars, req, idVars, connVars, histVars>>

TObj_get_span_tree ==
    /\ tree' = Trace_get_span_tree(tobj)
    /\ hist' = [NoHist EXCEPT !.op = "get_span_tree"]
    /\ UNCHANGED <<sdkVars, tobj, obj, orig, storeVars, req, idVars, connVars, histVars>>

TreeNext ==
    \/ \E parent \in 0..(MaxTreeSpans + 1) : TObj_add_span(parent)
    \/ TObj_get_span_tree

SpecTree == Init /\ [][TreeNext]_vars

HasSpan(spans, span_id) == \E i \in 1..Len(spans) : spans[i].span_id = span_id

\* span_id is root or leads to root over at most n parent links.
RECURSIVE UnderRoot(_, _, _, _)
UnderRoot(spans, root, span_id, n) ==
    IF span_id = root THEN TRUE
    ELSE IF n = 0 THEN FALSE
    ELSE LET p == SpanById(spans, span_id).parent_span_id
         IN p # None /\ HasSpan(spans, p) /\ UnderRoot(spans, root, p, n - 1)

Reachable(trace) ==
    {trace.spans[i].span_id : i \in
        {j \in 1..Len(trace.spans) :
            UnderRoot(trace.spans, trace.root_span_id, trace.spans[j].span_id,
                      Len(trace.spans))}}

\* The span ids of a tree, parents before children.
RECURSIVE Flatten(_)
RECURSIVE FlattenAll(_)
Flatten(node) == <<node.span.span_id>> \o FlattenAll(node.children)
FlattenAll(nodes) ==
    IF nodes = <<>> THEN <<>>
    ELSE Flatten(Head(nodes)) \o FlattenAll(Tail(nodes))

\* Every node carries its span, its children name it as their parent and
\* stand in the order of the span list.
RECURSIVE NodeOk(_, _)
NodeOk(spans, node) ==
    /\ HasSpan(spans, node.span.span_id)
    /\ node.span = SpanById(spans, node.span.span_id)
    /\ \A i \in 1..Len(node.children) :
        /\ node.children[i].span.parent_span_id = node.span.span_id
        /\ NodeOk(spans, node.children[i])
    /\ \A i, j \in 1..Len(node.children) :
        i < j => FindSpan(spans, node.children[i].span.span_id)
                    < FindSpan(spans, node.children[j].span.span_id)

ListNext ==
    \/ \E r \in Reqs : Respond(r)
    \/ \E r \in Reqs : Quiet(r) /\ CreateTrace_upto(r, MaxListTraces)
    \/ \E r \in Reqs : CreateTrace_zadd(r)
    \/ \E r \in Reqs, t \in ListIds : Quiet(r) /\ Complete_get(r, t, "success")
    \/ \E r \in Reqs : UpdateTrace_exists(r)
    \/ \E r \in Reqs : UpdateTrace_set(r)
    \/ \E r \in Reqs : UpdateTrace_zadd(r)
    \/ \E t \in ListIds : TraceExpire(t)
    \/ \E r \in Reqs, t \in ListIds : Quiet(r) /\ DeleteTrace_del(r, t)
    \/ \E r \in Reqs : DeleteTrace_zrem(r)
    \/ \E r \in Reqs : DeleteTrace_state(r)
    \/ \E r \in Reqs, offset \in {0, 1}, limit \in {1, 2},
          status \in {"none", "running"} :
            Quiet(r) /\ ListTraces_zrevrange(r, offset, limit, status)
    \/ \E r \in Reqs : ListTraces_get(r)

SpecList == Init /\ [][ListNext]_vars

Passes(trace, status) ==
    trace # NoTrace /\ (status = "none" \/ trace.status = status)

\* C24: a listing scans the ScanWindow latest ids of the time index by
\* falling start time, keeps of each id it reads the trace whose key
\* resolves and whose status passes the filter and nothing else, and
\* answers with the number of the traces kept as total and with their slice
\* [offset, offset + limit) as page, still by falling start time.
C24_ListIsFilteredSliceOfWindow ==
    [][\A r \in Reqs :
        /\ (req[r].pc = "idle" /\ req'[r].op = "list_traces")
            => LET scan == IF req'[r].pc = "lt_get" THEN req'[r].list.scan
                           ELSE <<>>
                   seen == {scan[i] : i \in 1..Len(scan)}
               IN /\ seen \subseteq traceList
                  /\ \A i, j \in 1..Len(scan) : i < j => scan[i] > scan[j]
                  /\ Len(scan) = IF Cardinality(traceList) < ScanWindow
                                 THEN Cardinality(traceList) ELSE ScanWindow
                  /\ \A t \in traceList \ seen : \A u \in seen : t < u
                  /\ req'[r].list.got = <<>>
        /\ (req[r].pc = "lt_get" /\ req'[r] # req[r])
            => LET l == req[r].list
                   tid == Head(l.scan)
               IN /\ req'[r].list.got =
                        IF Passes(traces[tid], l.status)
                        THEN Append(l.got, [trace_id |-> tid,
                                            status |-> traces[tid].status])
                        ELSE l.got
                  /\ req'[r].list.scan = Tail(l.scan)
                  /\ req'[r].pc = IF Len(l.scan) = 1 THEN "done" ELSE "lt_get"
        /\ (req[r].pc # "done" /\ req'[r].pc = "done"
            /\ req'[r].op = "list_traces")
            => LET l == req'[r].list
                   n == Len(l.got) - l.offset
               IN /\ req'[r].result = "ok"
                  /\ l.total = Len(l.got)
                  /\ Len(l.page) = IF n < 0 THEN 0
                                   ELSE IF n < l.limit THEN n ELSE l.limit
                  /\ \A i \in 1..Len(l.page) : l.page[i] = l.got[l.offset + i]
                  /\ \A i, j \in 1..Len(l.got) :
                        i < j => l.got[i].trace_id > l.got[j].trace_id
                  /\ \A i \in 1..Len(l.got) :
                        l.status # "none" => l.got[i].status = l.status
      ]_vars

\* Three ids in the index: the listing of the running traces read the two
\* latest, of which trace 3 has expired, and answers total 1 with trace 2,
\* while trace 1 is running too but outside the window.
C24_ExpiredSkippedWindowCounted ==
    \E r \in Reqs :
        /\ req[r].op = "list_traces"
        /\ req[r].pc = "done"
        /\ req[r].list.status = "running"
        /\ traceList = {1, 2, 3}
        /\ traces[3] = NoTrace
        /\ traces[1].status = "running"
        /\ req[r].list.total = 1
        /\ req[r].list.page = <<[trace_id |-> 2, status |-> "running"]>>

\* ---------------------------------------------------------------------------
\* Retention: the control and state handlers, run one request at a time,
\* beside the expiry of trace keys.
\* ---------------------------------------------------------------------------
TtlNext ==
    \/ CtlNext
    \/ \E t \in TraceIds : TraceExpire(t)

SpecTtl == Init /\ [][TtlNext]_vars

\* C25: every stored trace key and every stored state key has a pending
\* expiry, so that no state is left once its trace's retention window ended.
C25_StoredKeysHaveExpiry ==
    \A t \in TraceIds :
        /\ traces[t] # NoTrace => t \in ttl.trace
        /\ states[t] # NoState => t \in ttl.state

\* The part of C25 that save_trace does keep: a stored trace key always has
\* a pending expiry.
C25_TraceKeysHaveExpiry ==
    \A t \in TraceIds : traces[t] # NoTrace => t \in ttl.trace

\* The state of a trace is still stored after the trace's key has expired.
C25_StateOutlivesTrace ==
    \E t \in TraceIds :
        /\ traces[t] = NoTrace
        /\ t \in traceList
        /\ states[t] # NoState
        /\ Idle

\* ---------------------------------------------------------------------------
\* Events of the trace channel.
\* ---------------------------------------------------------------------------
\* The requests that write a trace as a whole.
TraceWriteOps == {"create_trace", "complete_trace", "delete_trace"}

\* C26: a create, an update (a complete_trace whose update_trace found the
\* key) or a delete of a trace that answers has published exactly one event
\* on the trace channel.
C26_OneTraceEventPerWrite ==
    [][\A r \in Reqs :
        (/\ req'[r] # req[r]
         /\ req'[r].pc = "done"
         /\ req'[r].result = "ok"
         /\ req'[r].op \in TraceWriteOps
         /\ req'[r].op = "complete_trace" => req'[r].found)
        => req'[r].tev = 1]_vars

\* The part of C26 that save_trace does keep: a create, and an update that
\* found its key, publish exactly one event.
C26_SavePublishesOnce ==
    [][\A r \in Reqs :
        (/\ req'[r] # req[r]
         /\ req'[r].pc = "done"
         /\ req'[r].result = "ok"
         /\ \/ req'[r].op = "create_trace"
            \/ req'[r].op = "complete_trace" /\ req'[r].found)
        => req'[r].tev = 1]_vars

\* A delete_trace of a created trace has answered and published nothing.
C26_DeletePublishedNothing ==
    \E r \in Reqs :
        /\ req[r].op = "delete_trace"
        /\ req[r].pc = "done"
        /\ req[r].tev = 0
        /\ req[r].result = "ok"
        /\ req[r].tid < nextTraceId

\* ---------------------------------------------------------------------------
\* SpecSave: save_trace on fresh and on used ids, beside complete_trace,
\* delete_trace and the expiry of trace keys, one request after another.
\* ---------------------------------------------------------------------------
SaveNext ==
    \/ \E r \in Reqs : Respond(r)
    \/ \E r \in Reqs : Quiet(r) /\ CreateTrace_upto(r, MaxListTraces - 1)
    \/ \E r \in Reqs : CreateTrace_zadd(r)
    \/ \E r \in Reqs, t \in ListIds : Quiet(r) /\ SaveTrace_exists(r, t)
    \/ \E r \in Reqs, t \in ListIds : Quiet(r) /\ Complete_get(r, t, "success")
    \/ \E r \in Reqs : UpdateTrace_exists(r)
    \/ \E r \in Reqs : UpdateTrace_set(r)
    \/ \E r \in Reqs : UpdateTrace_zadd(r)
    \/ \E t \in ListIds : TraceExpire(t)
    \/ \E r \in Reqs, t \in ListIds : Quiet(r) /\ DeleteTrace_del(r, t)
    \/ \E r \in Reqs : DeleteTrace_zrem(r)
    \/ \E r \in Reqs : DeleteTrace_state(r)

SpecSave == Init /\ [][SaveNext]_vars

\* C27: a save_trace with the id of a stored trace fails, leaves the stored
\* trace as it was and publishes nothing; one with an id that is not stored
\* stores the trace, indexes it and publishes trace_created.
C27_CreateNeverOverwrites ==
    [][\A r \in Reqs :
        (req[r].op \in {"create_trace", "save_trace"} /\ req'[r] # req[r]
         /\ req[r].pc # "done")
        => IF req[r].op = "save_trace" /\ req[r].found
           THEN /\ traces' = traces
                /\ req'[r].pc = "done"
                    => req'[r].result # "ok" /\ req'[r].tev = 0
           ELSE /\ req[r].pc = "ut_set" => traces'[req[r].tid] = req[r].trace
                /\ req'[r].pc = "done"
                    => /\ req[r].tid \in traceList'
                       /\ req'[r].result = "ok"
                       /\ req'[r].tev = 1
                       /\ req'[r].event = "trace_created"]_vars

\* The part of C27 that save_trace does keep: a trace whose id is not stored
\* is stored with an expiry, indexed, and announced by one trace_created.
C27_FreshIdIsStored ==
    [][/\ \A r \in Reqs :
            CreateTrace_upto(r, MaxListTraces - 1)
            => /\ traces[nextTraceId] = NoTrace
               /\ traces'[nextTraceId] = Trace(nextTraceId)
               /\ nextTraceId \in ttl'.trace
       /\ \A r \in Reqs :
            (/\ req[r].op \in {"create_trace", "save_trace"}
             /\ ~req[r].found
             /\ req'[r] # req[r]
             /\ req[r].pc # "done")
            => /\ req[r].pc = "ut_set" => /\ traces'[req[r].tid] = req[r].trace
                                          /\ req[r].tid \in ttl'.trace
               /\ req'[r].pc = "done"
                    => /\ req[r].tid \in traceList'
                       /\ req'[r].result = "ok"
                       /\ req'[r].tev = 1
                       /\ req'[r].event = "trace_created"]_vars

\* A trace was completed, and a save_trace with its id then answered ok: the
\* stored trace is running again and trace_updated was published.
C27_StoredTraceOverwritten ==
    \E r \in Reqs :
        /\ req[r].op = "save_trace"
        /\ req[r].pc = "done"
        /\ req[r].found
        /\ req[r].result = "ok"
        /\ req[r].event = "trace_updated"
        /\ traces[req[r].tid] = Trace(req[r].tid)
        /\ last.op = "complete_trace"
        /\ last.found
        /\ nextTraceId = 2

\* C28: an update_trace that finds no key writes nothing, publishes nothing
\* and its complete_trace does not answer ok; one that finds the key stores
\* the trace it was given and publishes trace_updated.
C28_UpdateSurfacesNotFound ==
    [][\A r \in Reqs :
        (req[r].op = "complete_trace" /\ req'[r] # req[r] /\ req[r].pc # "done")
        => /\ (UpdateTrace_exists(r) /\ traces[req[r].tid] = NoTrace)
                => /\ UNCHANGED storeVars
                   /\ req'[r].tev = 0
                   /\ req'[r].result # "ok"
           /\ UpdateTrace_set(r) => traces'[req[r].tid] = req[r].trace
           /\ UpdateTrace_zadd(r)
                => req'[r].tev = 1 /\ req'[r].event = "trace_updated"]_vars

\* The part of C28 that update_trace does keep: without the key nothing is
\* written or published, with it the trace is overwritten and trace_updated
\* published once.
C28_UpdateRequiresKey ==
    [][\A r \in Reqs :
        (req[r].op = "complete_trace" /\ req'[r] # req[r] /\ req[r].pc # "done")
        => /\ (UpdateTrace_exists(r) /\ traces[req[r].tid] = NoTrace)
                => /\ UNCHANGED storeVars
                   /\ req'[r].tev = 0
                   /\ req'[r].pc = "done"
           /\ UpdateTrace_set(r) => traces'[req[r].tid] = req[r].trace
           /\ UpdateTrace_zadd(r)
                => req'[r].tev = 1 /\ req'[r].event = "trace_updated"]_vars

\* complete_trace has answered ok for a trace whose key expired after its
\* get_trace: nothing was stored or published.
C28_CompletedAnExpiredTrace ==
    \E r \in Reqs :
        /\ req[r].op = "complete_trace"
        /\ req[r].pc = "done"
        /\ req[r].result = "ok"
        /\ ~req[r].found
        /\ req[r].tev = 0
        /\ traces[req[r].tid] = NoTrace

\* ---------------------------------------------------------------------------
\* SpecWait: an SDK client in wait_if_paused on a trace whose control is
\* initialized, paused, resumed and stepped, one request after another.
\* ---------------------------------------------------------------------------
WaitNext ==
    \/ \E r \in Reqs : req[r].op # "get_control_status" /\ Respond(r)
    \/ \E r \in Reqs : Quiet(r) /\ CreateTrace_set(r)
    \/ \E r \in Reqs : CreateTrace_zadd(r)
    \/ \E r \in Reqs, t \in TraceIds :
            Quiet(r) /\ Initialize_check(r, t, A1, EmptyDict, EmptyDict)
    \/ \E r \in Reqs, t \in TraceIds :
            Quiet(r) /\ EnsureTrace_check(r, "pause_execution", t)
    \/ \E r \in Reqs : Pause_get(r, None)
    \/ \E r \in Reqs, t \in TraceIds : Quiet(r) /\ Resume_get(r, t)
    \/ \E r \in Reqs, t \in TraceIds : Quiet(r) /\ Step_get(r, t, 1)
    \/ \E r \in Reqs : SaveState_set(r)
    \/ \E t \in TraceIds, expired \in BOOLEAN : WaitIfPaused_poll(t, expired)
    \/ \E r \in Reqs :
            Quiet(r) /\ sdk.pc = "sent" /\ GetControl_get(r, sdk.tid)
    \/ \E r \in Reqs, expired \in BOOLEAN : WaitIfPaused_status(r, expired)

SpecWait == Init /\ [][WaitNext]_vars

\* C29: a wait_if_paused call that returns after a poll returns True exactly
\* when the control was paused and has been resumed since, and no earlier
\* call has returned True for that resumption.
C29_TrueOnlyAfterPauseAndResume ==
    [][(sdk.pc = "sent" /\ sdk'.pc = "returned")
       => (sdk'.ret = "true" <=> pausedHist[sdk.tid] = "resumed")]_vars

\* The part of C29 that wait_if_paused does keep: it never returns True
\* while the stored control is paused, nor when max_wait is over, and it
\* does return True at the first poll after a pause was resumed.
C29_FalseWhilePausedOrExpired ==
    [][/\ (sdk' # sdk /\ sdk'.pc = "returned" /\ sdk'.ret = "true")
            => /\ sdk.pc = "sent"
               /\ pausedHist[sdk.tid] # "paused"
               /\ states[sdk.tid].control.resume_requested
       /\ (sdk.pc = "sent" /\ sdk'.pc = "returned"
           /\ pausedHist[sdk.tid] = "resumed")
            => sdk'.ret = "true"]_vars

\* wait_if_paused has returned True for a trace whose control was never
\* paused.
C29_TrueForNeverPaused ==
    /\ sdk.pc = "returned"
    /\ sdk.ret = "true"
    /\ pausedHist[sdk.tid] = "never"

\* ---------------------------------------------------------------------------
\* SpecUpd: an SDK client in update_state (memory = A2) on a trace that a
\* dashboard user pauses and snapshots, one request after another.
\* ---------------------------------------------------------------------------
SdkOps == {"bulk_modify_state", "initialize_state"}

UpdNext ==
    \/ \E r \in Reqs : req[r].op \notin SdkOps /\ Respond(r)
    \/ \E r \in Reqs : Quiet(r) /\ CreateTrace_set(r)
    \/ \E r \in Reqs : CreateTrace_zadd(r)
    \/ \E r \in Reqs, t \in TraceIds :
            Quiet(r) /\ EnsureTrace_check(r, "pause_execution", t)
    \/ \E r \in Reqs : Pause_get(r, None)
    \/ \E r \in Reqs, t \in TraceIds : Quiet(r) /\ TakeSnapshot_get(r, t, None)
    \/ \E r \in Reqs : SaveState_set(r)
    \/ \E t \in TraceIds : UpdateState_call(t)
    \/ \E r \in Reqs :
            /\ Quiet(r)
            /\ sdk.fn = "update_state" /\ sdk.pc \in {"sent", "retry"}
            /\ BulkModify_get(r, sdk.tid, A2, NotGiven, NotGiven)
    \/ \E r \in Reqs, failed \in BOOLEAN : UpdateState_result(r, failed)
    \/ \E r \in Reqs :
            /\ Quiet(r)
            /\ sdk.fn = "update_state" /\ sdk.pc = "init"
            /\ Initialize_check(r, sdk.tid, A2, EmptyDict, EmptyDict)
    \/ \E r \in Reqs : UpdateState_initialized(r)

SpecUpd == Init /\ [][UpdNext]_vars

\* C30: update_state goes on to initialize_state only when no state is
\* stored for the trace.
C30_InitializeOnlyWithoutState ==
    [][(sdk.fn = "update_state" /\ sdk.pc = "sent" /\ sdk'.pc = "init")
       => states[sdk.tid] = NoState]_vars

\* The part of C30 that update_state does keep: a PUT that was answered
\* with the state is not followed by initialize_state, and a PUT that found
\* no state is.
C30_InitializeAfterEmptyResult ==
    [][\A r \in Reqs, failed \in BOOLEAN :
        (UpdateState_result(r, failed) /\ sdk.pc = "sent")
        => /\ (req[r].result = "ok" /\ ~failed) => sdk'.pc = "returned"
           /\ states[sdk.tid] = NoState => sdk'.pc = "init"]_vars

\* The initialize_state of an update_state has found the trace and is about
\* to save a new state over a stored one that is paused and has a snapshot.
C30_PausedStateReset ==
    /\ sdk.fn = "update_state"
    /\ sdk.pc = "init"
    /\ states[sdk.tid] # NoState
    /\ states[sdk.tid].control.status = "paused"
    /\ states[sdk.tid].snapshots # <<>>
    /\ \E r \in Reqs :
            /\ req[r].op = "initialize_state"
            /\ req[r].pc = "ss_set"
            /\ req[r].tid = sdk.tid
            /\ req[r].state.control.status = "running"
            /\ req[r].state.snapshots = <<>>

\* ---------------------------------------------------------------------------
\* SpecTracer: trace and span contexts entered and left by the main task and
\* by an asyncio task it creates, with create_trace and create_span calls
\* that succeed or fail.
\* ---------------------------------------------------------------------------
TracerNext ==
    \/ \E k \in Tasks, ok \in BOOLEAN : Tracer_trace(k, ok)
    \/ \E k \in Tasks : Tracer_trace_exit(k)
    \/ \E k \in Tasks, ok \in BOOLEAN : Tracer_span(k, ok)
    \/ \E k \in Tasks : Tracer_span_exit(k)
    \/ \E k \in Tasks : Tracer_spawn(k)

SpecTracer == Init /\ [][TracerNext]_vars

\* A span is in the trace that is active for its task, and its parent is
\* the innermost span that task has open (for a task with none: no parent,
\* or the span its creator had open when it started the task).
SpanPlaced(s) ==
    /\ s.trace_id = tracer'.ctx[s.task]
    /\ \/ s.parent_span_id = s.own
       \/ s.own = None /\ s.parent_span_id = tracer.inherit[s.task]

\* Task k leaves its innermost context, and its span stack and active trace
\* id are then what they were when it entered.
ExitRestores(k) ==
    (Tracer_trace_exit(k) \/ Tracer_span_exit(k))
    => LET f == tracer.frames[k][Len(tracer.frames[k])] IN
       /\ tracer'.ctx[k] = f.was_trace
       /\ f.was_stack = IF tracer'.ref[k] = 0 THEN <<>>
                        ELSE tracer'.lists[tracer'.ref[k]]

\* C31: every span the tracer creates belongs to the active trace and has
\* the innermost open span of its task as parent, and a task that leaves a
\* trace or span context, entered with or without a failed creation, finds
\* its span stack and active trace id as they were before entry.
C31_ParentAndStackRestored ==
    [][/\ \A s \in tracer'.spans \ tracer.spans : SpanPlaced(s)
       /\ \A k \in Tasks : ExitRestores(k)]_vars

\* The part of C31 that the tracer does keep: it holds as long as the
\* program has one task.
C31_HoldsInOneTask ==
    [][tracer'.started = {1}
       => /\ \A s \in tracer'.spans \ tracer.spans : SpanPlaced(s)
          /\ \A k \in Tasks : ExitRestores(k)]_vars

\* Two tasks of one trace each opened a span and have left it, no span
\* context is open any more, and the id of the main task's span is still on
\* the stack they share.
C31_ClosedSpanLeftOnStack ==
    /\ tracer.started = Tasks
    /\ Len(tracer.frames[1]) = 1
    /\ tracer.frames[1][1].kind = "trace"
    /\ tracer.frames[2] = <<>>
    /\ \E s1, s2 \in tracer.spans :
            /\ s1.task = 1 /\ s2.task = 2
            /\ s1.trace_id = s2.trace_id
            /\ s2.parent_span_id = s1.span_id
            /\ tracer.lists[tracer.ref[2]] = <<s1.span_id>>

\* ---------------------------------------------------------------------------
\* SpecRace: create_span, complete_trace and delete_trace requests on one
\* trace that overlap, each await of a handler being a step of its own.
\* ---------------------------------------------------------------------------
RaceNext ==
    \/ \E r \in Reqs : Respond(r)
    \/ \E r \in Reqs : CreateTrace_set(r)
    \/ \E r \in Reqs : CreateTrace_zadd(r)
    \/ \E r \in Reqs, t \in TraceIds : CreateSpan_check(r, t, "tool", None)
    \/ \E r \in Reqs : AddSpan_get(r, "tool", None)
    \/ \E r \in Reqs : AddSpan_set(r)
    \/ \E r \in Reqs : AddSpan_zadd(r, "tool", None)
    \/ \E r \in Reqs, t \in TraceIds : Complete_get(r, t, "success")
    \/ \E r \in Reqs : UpdateTrace_exists(r)
    \/ \E r \in Reqs : UpdateTrace_set(r)
    \/ \E r \in Reqs : UpdateTrace_zadd(r)
    \/ \E r \in Reqs, t \in TraceIds : DeleteTrace_del(r, t)
    \/ \E r \in Reqs : DeleteTrace_zrem(r)
    \/ \E r \in Reqs : DeleteTrace_state(r)

SpecRace == Init /\ [][RaceNext]_vars

\* C32: once a delete_trace of a trace has completed, the trace key stays
\* absent and the trace stays out of the time index, whatever requests that
\* read the trace before the delete do afterwards.
C32_DeletedStaysDeleted ==
    \A t \in TraceIds :
        deleted[t] # "no" => traces[t] = NoTrace /\ t \notin traceList

\* A create_span that read the trace before a delete_trace has answered
\* after it: the trace is stored and indexed again, with the new span.
C32_SpanSaveRevivedTrace ==
    \E t \in TraceIds :
        /\ deleted[t] # "no"
        /\ traces[t] # NoTrace
        /\ traces[t].spans # <<>>
        /\ t \in traceList
        /\ Idle
        /\ last.op = "create_span"
        /\ last.result = "ok"

\* A complete_trace whose EXISTS preceded a delete_trace has answered after
\* it: the trace is stored and indexed again.
C32_CompleteRevivedTrace ==
    \E t \in TraceIds :
        /\ deleted[t] # "no"
        /\ traces[t] # NoTrace
        /\ t \in traceList
        /\ Idle
        /\ last.op = "complete_trace"
        /\ last.found

\* ---------------------------------------------------------------------------
\* SpecStateRace: a data write to the state of a trace (modify, bulk,
\* snapshot, restore, breakpoints) with pause and resume requests that
\* overlap it: each handler reads the state in one step and saves it in a
\* later one.
\* ---------------------------------------------------------------------------
StateRaceNext ==
    \/ \E r \in Reqs : Respond(r)
    \/ \E r \in Reqs : Quiet(r) /\ CreateTrace_set(r)
    \/ \E r \in Reqs : CreateTrace_zadd(r)
    \/ \E r \in Reqs, t \in TraceIds :
            Quiet(r) /\ Initialize_check(r, t, EmptyDict, EmptyDict, EmptyDict)
    \/ \E r \in Reqs, t \in TraceIds :
            Quiet(r) /\ ModifyState_get(r, t, <<"memory", "a">>, Leaf(1))
    \/ \E r \in Reqs, t \in TraceIds :
            Quiet(r) /\ BulkModify_get(r, t, A2, NotGiven, NotGiven)
    \/ \E r \in Reqs, t \in TraceIds :
            Quiet(r) /\ EnsureTrace_check(r, "set_breakpoints", t)
    \/ \E r \in Reqs : Breakpoints_get(r, <<1>>, <<>>)
    \/ \E r \in Reqs, t \in TraceIds :
            Quiet(r) /\ states[t].snapshots = <<>> /\ TakeSnapshot_get(r, t, None)
    \/ \E r \in Reqs, t \in TraceIds : Quiet(r) /\ RestoreSnapshot_get(r, t, 1)
    \/ \E r \in Reqs, t \in TraceIds : EnsureTrace_check(r, "pause_execution", t)
    \/ \E r \in Reqs : Pause_get(r, None)
    \/ \E r \in Reqs, t \in TraceIds : Resume_get(r, t)
    \/ \E r \in Reqs : SaveState_set(r)

SpecStateRace == Init /\ [][StateRaceNext]_vars

\* The handlers that are to leave the control status alone.
DataOps == {"modify_state", "bulk_modify_state", "take_snapshot",
            "restore_snapshot", "set_breakpoints"}

\* C33: the save of a modify_state, bulk_modify_state, take_snapshot,
\* restore_snapshot or set_breakpoints request leaves the stored control
\* status of the trace as it was.
C33_DataWritesKeepControlStatus ==
    [][\A r \in Reqs :
        (SaveState_set(r) /\ req[r].op \in DataOps
         /\ states[req[r].tid] # NoState)
        => states'[req[r].tid].control.status
            = states[req[r].tid].control.status]_vars

\* The part of C33 that the handlers do keep: a data write changes the
\* control status of the state it read in no way.
C33_DataOpsKeepWhatTheyRead ==
    [][\A r \in Reqs :
        (req'[r].op \in DataOps /\ req'[r].pc = "ss_set" /\ req[r].pc # "ss_set"
         /\ states[req'[r].tid] # NoState)
        => req'[r].state.control.status
            = states[req'[r].tid].control.status]_vars

\* A pause was saved and answered; a write that had read the state before
\* it then saved: the stored control is running again.
C33_PauseUndoneByStaleWrite ==
    \E t \in TraceIds :
        /\ pausedHist[t] = "paused"
        /\ states[t] # NoState
        /\ states[t].control.status = "running"
        /\ last.op = "pause_execution"
        /\ last.result = "ok"
        /\ \E r \in Reqs : req[r].pc = "done" /\ req[r].op \in DataOps

\* ---------------------------------------------------------------------------
\* SpecOrphan: initialize_state, pause_execution and set_breakpoints, which
\* check the trace in one step and save the state in a later one, with
\* delete_trace requests that overlap them and with the expiry of trace keys.
\* ---------------------------------------------------------------------------
OrphanNext ==
    \/ \E r \in Reqs : Respond(r)
    \/ \E r \in Reqs : Quiet(r) /\ CreateTrace_set(r)
    \/ \E r \in Reqs : CreateTrace_zadd(r)
    \/ \E r \in Reqs, t \in TraceIds :
            Initialize_check(r, t, A1, EmptyDict, EmptyDict)
    \/ \E r \in Reqs, t \in TraceIds,
          op \in {"pause_execution", "set_breakpoints"} :
            EnsureTrace_check(r, op, t)
    \/ \E r \in Reqs : Pause_get(r, None)
    \/ \E r \in Reqs : Breakpoints_get(r, <<1>>, <<>>)
    \/ \E r \in Reqs : SaveState_set(r)
    \/ \E r \in Reqs, t \in TraceIds : DeleteTrace_del(r, t)
    \/ \E r \in Reqs : DeleteTrace_zrem(r)
    \/ \E r \in Reqs : DeleteTrace_state(r)
    \/ \E t \in TraceIds : TraceExpire(t)

SpecOrphan == Init /\ [][OrphanNext]_vars

\* C34: a state is stored only for a trace that is stored.
C34_StateImpliesTrace ==
    \A t \in TraceIds : states[t] # NoState => traces[t] # NoTrace

\* A delete_trace has completed and answered, and the state that a pause,
\* an initialize or a set_breakpoints saved after it is stored.
C34_StateSavedAfterDelete ==
    \E t \in TraceIds :
        /\ deleted[t] # "no"
        /\ traces[t] = NoTrace
        /\ states[t] # NoState
        /\ Idle
        /\ last.op \in {"pause_execution", "initialize_state", "set_breakpoints"}
        /\ last.result = "ok"

\* ---------------------------------------------------------------------------
\* SpecGate: the tracer's span() with auto_pause_check: wait_if_paused, its
\* return value ignored, then create_span.  The control poll is answered by
\* the server or, when the request fails or the circuit is open, by the
\* fallback of get_control_status.  max_wait does not run out here, and the
\* dashboard does not pause between the return of wait_if_paused and the
\* create_span that follows it.
\* ---------------------------------------------------------------------------

\* get_control_status: _safe_request gives up (circuit open, retries used
\* up, or a non-retryable answer) and returns the fallback
\* {"status": "running", "resume_requested": False}; wait_if_paused takes
\* it for a control that is not paused and returns False.
WaitIfPaused_fallback ==
    /\ sdk.fn = "wait_if_paused"
    /\ sdk.pc = "sent"
    /\ \A r \in Reqs : req[r].pc = "idle"
    /\ sdk' = [sdk EXCEPT !.pc = "returned", !.ret = "false"]
    /\ UNCHANGED <<pausedHist, tracer, storeVars, req, idVars, connVars, histVars,
                   objVars>>

GateNext ==
    \/ \E r \in Reqs : req[r].op # "get_control_status" /\ Respond(r)
    \/ \E r \in Reqs : Quiet(r) /\ CreateTrace_set(r)
    \/ \E r \in Reqs : CreateTrace_zadd(r)
    \/ \E r \in Reqs, t \in TraceIds :
            Quiet(r) /\ Initialize_check(r, t, A1, EmptyDict, EmptyDict)
    \/ \E r \in Reqs, t \in TraceIds :
            /\ Quiet(r)
            /\ sdk.pc # "returned"
            /\ EnsureTrace_check(r, "pause_execution", t)
    \/ \E r \in Reqs : Pause_get(r, None)
    \/ \E r \in Reqs, t \in TraceIds : Quiet(r) /\ Resume_get(r, t)
    \/ \E r \in Reqs : SaveState_set(r)
    \/ \E t \in TraceIds : t < nextTraceId /\ WaitIfPaused_poll(t, FALSE)
    \/ \E r \in Reqs :
            Quiet(r) /\ sdk.pc = "sent" /\ GetControl_get(r, sdk.tid)
    \/ \E r \in Reqs : WaitIfPaused_status(r, FALSE)
    \/ WaitIfPaused_fallback
    \/ \E r \in Reqs :
            /\ Quiet(r)
            /\ sdk.fn = "wait_if_paused"
            /\ sdk.pc = "returned"
            /\ CreateSpan_check(r, sdk.tid, "tool", None)
    \/ \E r \in Reqs : AddSpan_get(r, "tool", None)
    \/ \E r \in Reqs : AddSpan_set(r)
    \/ \E r \in Reqs : AddSpan_zadd(r, "tool", None)

SpecGate == Init /\ [][GateNext]_vars

\* The tracer sends create_span for the trace wait_if_paused was called on.
SpanStarted ==
    \E r \in Reqs :
        /\ req[r].pc = "idle"
        /\ req'[r].op = "create_span"
        /\ req'[r].pc # "idle"
        /\ req'[r].tid = sdk.tid

\* C35: while the stored control status of a trace is paused, the tracer
\* starts no span for that trace (max_wait has not run out), whether the
\* control poll was answered, failed or was short-circuited.
C35_NoSpanWhilePaused ==
    [][SpanStarted
       => (states[sdk.tid] = NoState
           \/ states[sdk.tid].control.status # "paused")]_vars

\* The part of C35 that the code keeps: wait_if_paused returns on an
\* answered poll only when the stored control status is not paused.
C35_AnsweredPollBlocks ==
    [][(\E r \in Reqs : WaitIfPaused_status(r, FALSE)) /\ sdk'.pc = "returned"
       => (states[sdk.tid] = NoState
           \/ states[sdk.tid].control.status # "paused")]_vars

\* The poll of a paused trace fell back, wait_if_paused returned False and
\* the tracer's create_span for that trace is with the server.
C35_SpanStartedWhilePaused ==
    \E r \in Reqs :
        /\ req[r].op = "create_span"
        /\ req[r].pc = "as_get"
        /\ req[r].tid = sdk.tid
        /\ sdk.ret = "false"
        /\ states[sdk.tid] # NoState
        /\ states[sdk.tid].control.status = "paused"

\* ---------------------------------------------------------------------------
\* root_span_id of the stored trace, under Spec (create_span requests that
\* overlap, every span without a parent).
\* ---------------------------------------------------------------------------

\* C36: once the stored trace has a root_span_id, no write of the trace
\* changes it to another span, also when add_span calls overlap.
C36_RootNeverChanges ==
    [][\A t \in TraceIds :
          (traces[t] # NoTrace /\ traces'[t] # NoTrace
           /\ traces[t].root_span_id # None)
          => traces'[t].root_span_id = traces[t].root_span_id]_vars

\* The part of C36 that every stored trace keeps: root_span_id is unset,
\* or it is the first span of spans that has no parent.
C36_RootIsFirstParentless ==
    \A t \in TraceIds :
        traces[t] # NoTrace /\ traces[t].root_span_id # None
        => LET parentless == SelectSeq(traces[t].spans,
                                       LAMBDA s : s.parent_span_id = None)
           IN /\ parentless # <<>>
              /\ traces[t].root_span_id = parentless[1].span_id

\* An add_span has stored the trace with its own span as the root and is
\* about to publish; the stored trace has another root by now, and the
\* span is not in it.
C36_RootReplaced ==
    \E r \in Reqs :
        /\ req[r].pc = "as_zadd"
        /\ req[r].op = "create_span"
        /\ req[r].trace.root_span_id = req[r].sid
        /\ traces[req[r].tid] # NoTrace
        /\ traces[req[r].tid].root_span_id \notin {None, req[r].sid}
        /\ req[r].sid \notin SpanIdsOf(traces[req[r].tid])

\* ---------------------------------------------------------------------------
\* SpecStep: the control of a trace under initialize, pause, resume and step
\* requests, one after another, step counts validated by StepRequest.
\* ---------------------------------------------------------------------------
StepCounts == {0, 1, 3}

\* POST /{trace_id}/step: StepRequest admits a count of 1..1000, any other
\* is answered 422 before the handler runs.
Step_request(r, t, count) ==
    IF count \in 1..1000
    THEN Step_get(r, t, count)
    ELSE /\ Free(r)
         /\ req' = [req EXCEPT ![r] = Finish(NewReq("step_execution", t), "422")]
         /\ UNCHANGED <<sdkVars, storeVars, idVars, connVars, histVars, objVars>>

StepNext ==
    \/ \E r \in Reqs : Respond(r)
    \/ \E r \in Reqs : Quiet(r) /\ CreateTrace_set(r)
    \/ \E r \in Reqs : CreateTrace_zadd(r)
    \/ \E r \in Reqs, t \in TraceIds :
            Quiet(r) /\ Initialize_check(r, t, A1, EmptyDict, EmptyDict)
    \/ \E r \in Reqs, t \in TraceIds :
            Quiet(r) /\ EnsureTrace_check(r, "pause_execution", t)
    \/ \E r \in Reqs, s \in {None, 1} : Pause_get(r, s)
    \/ \E r \in Reqs, t \in TraceIds : Quiet(r) /\ Resume_get(r, t)
    \/ \E r \in Reqs, t \in TraceIds, n \in StepCounts :
            Quiet(r) /\ Step_request(r, t, n)
    \/ \E r \in Reqs : SaveState_set(r)

SpecStep == Init /\ [][StepNext]_vars

\* C37: a stored control that is running has neither paused_at nor
\* paused_span_id; one that is paused has paused_at and no resume_requested;
\* one in step has resume_requested, current_step 0 and a step_count of at
\* least 1, which is the count of the step request that was stored last:
\* the handler puts the count of its request into the control it saves, a
\* count below 1 reaches no handler, and nothing but the save of a step
\* request changes a stored control that is in step afterwards.
C37_ControlStatusFields ==
    /\ [](\A t \in TraceIds :
            states[t] # NoState
            => LET c == states[t].control
               IN /\ c.status = "running"
                     => c.paused_at = None /\ c.paused_span_id = None
                  /\ c.status = "paused"
                     => c.paused_at # None /\ ~c.resume_requested
                  /\ c.status = "step"
                     => /\ c.resume_requested
                        /\ c.current_step = 0
                        /\ c.step_count >= 1)
    /\ [][\A r \in Reqs, t \in TraceIds, n \in StepCounts :
            Step_request(r, t, n)
            => IF n < 1 \/ states[t] = NoState
               THEN req'[r].pc = "done" /\ req'[r].result # "ok"
               ELSE /\ req'[r].state.control.status = "step"
                    /\ req'[r].state.control.step_count = n]_vars
    /\ [][\A t \in TraceIds :
            (states'[t] # NoState
             /\ states'[t].control.status = "step"
             /\ states'[t].control # states[t].control)
            => \E r \in Reqs :
                    /\ req[r].op = "step_execution"
                    /\ req[r].tid = t
                    /\ req[r].pc = "ss_set"
                    /\ states'[t].control = req[r].state.control]_vars

\* A control went through pause, resume, pause and a step of 3: it is in
\* step with the paused_at of the pause still set.
C37_SteppedAfterPause ==
    \E t \in TraceIds :
        /\ states[t] # NoState
        /\ states[t].control.status = "step"
        /\ states[t].control.step_count = 3
        /\ states[t].control.paused_at # None
        /\ pausedHist[t] = "resumed"

\* ---------------------------------------------------------------------------
\* SpecReap: clients of /ws whose peer goes away with a subscribe message
\* still unread, under create_span requests whose broadcast reaps them.
\* ---------------------------------------------------------------------------

\* websocket_endpoint's loop for a socket whose peer is gone: receive_text
\* hands out a subscribe the peer sent before it left, subscribe_to_trace
\* runs, and the handler awaits the send of "subscribed" (which raises; the
\* finally block is WsExit).
WsSubscribe_queued(c, t) ==
    /\ ws[c] = "closed"
    /\ trace_subscriptions' =
        [trace_subscriptions EXCEPT ![t] =
            [key |-> TRUE,
             list |-> IF InSeq(@.list, c) THEN @.list ELSE Append(@.list, c)]]
    /\ UNCHANGED <<sdkVars, active_connections, ws, inbox, storeVars, idVars, req,
                   histVars, objVars>>

ReapNext ==
    \/ \E r \in Reqs : Respond(r)
    \/ \E r \in Reqs : Quiet(r) /\ CreateTrace_set(r)
    \/ \E r \in Reqs : CreateTrace_zadd(r)
    \/ \E r \in Reqs, t \in TraceIds :
            Quiet(r) /\ CreateSpan_check(r, t, "tool", None)
    \/ \E r \in Reqs : AddSpan_get(r, "tool", None)
    \/ \E r \in Reqs : AddSpan_set(r)
    \/ \E r \in Reqs : AddSpan_zadd(r, "tool", None)
    \/ \E r \in Reqs : Send(r, "tool", None)
    \/ \E c \in Peers : WsConnect(c)
    \/ \E c \in Peers, t \in SubIds : WsSubscribe(c, t)
    \/ \E c \in Peers, t \in SubIds : WsSubscribe_queued(c, t)
    \/ \E c \in Peers : PeerClose(c)
    \/ \E c \in Peers : WsExit(c)

SpecReap == Init /\ [][ReapNext]_vars

\* C38: every connection in a subscriber list is in active_connections.
C38_SubscribersAreActive ==
    \A t \in SubIds, c \in Peers :
        InSeq(trace_subscriptions[t].list, c) => InSeq(active_connections, c)

\* The part of C38 that the manager keeps: a subscriber whose peer is
\* there is in active_connections.
C38_OpenSubscribersAreActive ==
    \A t \in SubIds, c \in Peers :
        ws[c] = "open" /\ InSeq(trace_subscriptions[t].list, c)
        => InSeq(active_connections, c)

\* A broadcast sent to one subscriber and reaped the other, whose handler
\* then subscribed it again: it is a subscriber and not an active
\* connection.
C38_SubscribedAfterReap ==
    \E t \in SubIds, c \in Peers :
        /\ ws[c] = "closed"
        /\ InSeq(trace_subscriptions[t].list, c)
        /\ ~InSeq(active_connections, c)
        /\ \E d \in Peers : d # c /\ inbox[d] # <<>>

\* ---------------------------------------------------------------------------
\* SpecEndpoint: the two WebSocket endpoints from connect to their return,
\* with peers that close or go stale and the heartbeat that probes them.
\* ---------------------------------------------------------------------------

\* trace_websocket up to the await of its subscription rate limit:
\* manager.connect.  ("accepted": registered, the limit not yet answered.)
TraceWs_connect(c) ==
    /\ ws[c] = "new"
    /\ ws' = [ws EXCEPT ![c] = "accepted"]
    /\ active_connections' = Append(active_connections, c)
    /\ UNCHANGED <<sdkVars, trace_subscriptions, inbox, storeVars, idVars, req,
                   histVars, objVars>>

\* trace_websocket, the rate limit is answered: over the limit the socket
\* is closed and the handler returns; else subscribe_to_trace with the
\* trace of the path, and the handler goes on to its receive loop.
TraceWs_limit(c, t, limited) ==
    /\ ws[c] = "accepted"
    /\ ws' = [ws EXCEPT ![c] = IF limited THEN "gone" ELSE "open"]
    /\ trace_subscriptions' =
        IF limited THEN trace_subscriptions
        ELSE [trace_subscriptions EXCEPT ![t] =
                [key |-> TRUE,
                 list |-> IF InSeq(@.list, c) THEN @.list ELSE Append(@.list, c)]]
    /\ UNCHANGED <<sdkVars, active_connections, inbox, storeVars, idVars, req,
                   histVars, objVars>>

EndpointNext ==
    \/ \E c \in Peers : WsConnect(c)
    \/ \E c \in Peers : TraceWs_connect(c)
    \/ \E c \in Peers, t \in SubIds, limited \in BOOLEAN :
            TraceWs_limit(c, t, limited)
    \/ \E c \in Peers, t \in SubIds : WsSubscribe(c, t)
    \/ \E c \in Peers, t \in SubIds : WsUnsubscribe(c, t)
    \/ \E c \in Peers : PeerClose(c)
    \/ \E c \in Peers : PeerStale(c)
    \/ \E c \in Peers : Heartbeat(c)
    \/ \E c \in Peers : WsExit(c)

SpecEndpoint == Init /\ [][EndpointNext]_vars

\* C39: when the endpoint handler of a connected socket returns, the socket
\* is in neither active_connections nor any subscriber list.
C39_ReturnedHandlerLeavesNothing ==
    [][\A c \in Peers :
        (ws[c] \notin {"new", "gone"} /\ ws'[c] = "gone")
        => /\ ~InSeq(active_connections', c)
           /\ \A t \in SubIds : ~InSeq(trace_subscriptions'[t].list, c)]_vars

\* The part of C39 that the endpoints keep: a handler that returns from its
\* receive loop (peer closed, heartbeat close) leaves nothing behind.
C39_LoopExitLeavesNothing ==
    [][\A c \in Peers :
        (ws[c] \in {"open", "closed", "stale", "probed"} /\ ws'[c] = "gone")
        => /\ ~InSeq(active_connections', c)
           /\ \A t \in SubIds : ~InSeq(trace_subscriptions'[t].list, c)]_vars

\* Both handlers have returned, one from its loop and one on the
\* subscription rate limit, and the latter's socket is an active connection.
C39_RejectedStaysActive ==
    \E c, d \in Peers :
        /\ c # d
        /\ ws[c] = "gone"
        /\ ws[d] = "gone"
        /\ InSeq(active_connections, c)
        /\ ~InSeq(active_connections, d)

\* ---------------------------------------------------------------------------
\* Unsubscribe and disconnect against a broadcast_to_trace under way, under
\* SpecBc.
\* ---------------------------------------------------------------------------

\* C40: every message that broadcast_to_trace(T) delivers goes to a
\* connection that is a subscriber of T at that moment: one that has
\* unsubscribed or was disconnected, and has not subscribed again, gets
\* none, whether the broadcast started before or after.
C40_OnlySubscribersAreSent ==
    [][\A r \in Reqs, c \in Peers :
        (/\ req[r].pc = "send"
         /\ req[r].op # "broadcast"
         /\ req'[r] # req[r]
         /\ inbox'[c] # inbox[c])
        => Subscribed(c, req[r].tid)]_vars

\* The part of C40 that the manager keeps: a broadcast_to_trace that starts
\* has only subscribers of that moment among its targets.
C40_StartsWithSubscribers ==
    [][\A r \in Reqs :
        (req[r].pc # "send" /\ req'[r].pc = "send" /\ req'[r].op # "broadcast")
        => \A i \in 1..Len(req'[r].targets) :
                Subscribed(req'[r].targets[i], req[r].tid)]_vars

\* The broadcast of a create_span has sent to its first subscriber; the
\* second one has unsubscribed in the meantime, its socket is open and it
\* is the next to be sent the message.
C40_SendToUnsubscribed ==
    \E r \in Reqs, c, d \in Peers :
        /\ req[r].pc = "send"
        /\ req[r].op = "create_span"
        /\ req[r].targets = <<c>>
        /\ ws[c] = "open"
        /\ ~Subscribed(c, req[r].tid)
        /\ InSeq(active_connections, c)
        /\ d # c
        /\ Subscribed(d, req[r].tid)
        /\ req[r].msg \in {inbox[d][i] : i \in 1..Len(inbox[d])}
====
